---- MODULE Spec2Model ----
(***************************************************************************)
(* A model of the 6502 interpreter core: the memory bus, the flags         *)
(* register, the execution handlers of Cpu and the stdout trace the bus     *)
(* prints for every access.                                                 *)
(***************************************************************************)
EXTENDS Integers, Sequences, FiniteSets, TLC

VARIABLES
    a,               \* Cpu.a
    x,               \* Cpu.x
    y,               \* Cpu.y
    pc,              \* Cpu.pc
    s,               \* Cpu.s
    p,               \* Cpu.p (the byte inside FlagsRegister)
    zero_page,       \* MemoryBus.zero_page, sparse: absent index = 0
    ram_io_rom,      \* MemoryBus.ram_io_rom, sparse: absent index = 0
    status,          \* "running", or "panicked" / "argument_mismatch" once a panic aborted
    overflow_checks, \* build profile: TRUE = debug (overflow panics), FALSE = release (wraps)
    bus_log,         \* the bus accesses printed by the last executed instruction
    hist,            \* the instructions executed so far with the registers before each, newest first
    mem_before,      \* ghost: the memory arrays as they were before the last instruction
    steps,           \* number of instructions executed
    limit            \* number of instructions the exploration executes in a row

vars == <<a, x, y, pc, s, p, zero_page, ram_io_rom, status, overflow_checks,
          bus_log, hist, mem_before, steps, limit>>

----------------------------------------------------------------------------
(* Bounds of the exploration *)

\* instructions executed in a row by the stack, arithmetic and branch explorations
MaxSteps == 2
MaxArithSteps == 1
MaxCompareSteps == 1
MaxExecSteps == 1
MaxIndexedSteps == 1
MaxProgramSteps == 2
MaxBranchSteps == 1
MaxBusSteps == 2
MaxFlagSteps == 2
MaxRotateSteps == 2

----------------------------------------------------------------------------
(* memory_bus.rs: region constants *)

ZERO_PAGE_START == 0
ZERO_PAGE_END == 255
DATA_STACK_START == 256
DATA_STACK_END == 511
RAM_IO_ROM_START == 512
RAM_IO_ROM_END == 65529
RAM_IO_ROM_SIZE == RAM_IO_ROM_END - RAM_IO_ROM_START + 1
IRQ_START == 65534
IRQ_END == 65535
MEM_SPACE_END == 65535

U8 == 256
U16 == 65536

----------------------------------------------------------------------------
(* Bit-level helpers for Rust's integer operators on u8/u16 *)

RECURSIVE BitAndN(_, _, _)
BitAndN(u, v, n) ==
    IF n = 0 THEN 0
    ELSE ((u % 2) * (v % 2)) + (2 * BitAndN(u \div 2, v \div 2, n - 1))

RECURSIVE BitOrN(_, _, _)
BitOrN(u, v, n) ==
    IF n = 0 THEN 0
    ELSE (IF (u % 2) + (v % 2) > 0 THEN 1 ELSE 0) + (2 * BitOrN(u \div 2, v \div 2, n - 1))

RECURSIVE BitXorN(_, _, _)
BitXorN(u, v, n) ==
    IF n = 0 THEN 0
    ELSE (((u % 2) + (v % 2)) % 2) + (2 * BitXorN(u \div 2, v \div 2, n - 1))

RECURSIVE Pow2(_)
Pow2(n) == IF n = 0 THEN 1 ELSE 2 * Pow2(n - 1)

And8(u, v) == BitAndN(u, v, 8)
Or8(u, v) == BitOrN(u, v, 8)
And16(u, v) == BitAndN(u, v, 16)
Xor16(u, v) == BitXorN(u, v, 16)
Not8(u) == (U8 - 1) - u
Not16(u) == (U16 - 1) - u
Shl8(u, n) == (u * Pow2(n)) % U8
Shr(u, n) == u \div Pow2(n)

\* let-binding by value: F applied to the value of v, v evaluated once
Bind(v, F(_)) == CHOOSE r \in {F(w) : w \in {v}} : TRUE

----------------------------------------------------------------------------
(* flags_register.rs *)

Negative == 7
Overflow == 6
DecimalMode == 3
IrqDisable == 2
Zero == 1
Carry == 0

\* mutant of write_flag: clearing masks with the flag's bit instead of its complement
write_flag_mask_not_inverted(bits, flag, set) ==
    IF set THEN Or8(bits, Shl8(1, flag))
    ELSE And8(bits, Shl8(1, flag))

write_flag(bits, flag, set) ==
    IF set THEN Or8(bits, Shl8(1, flag))
    ELSE And8(bits, Not8(Shl8(1, flag)))

read_flag(bits, flag) ==
    Shr(And8(bits, Shl8(1, flag)), flag) = 1

FlagsRegister_new(bits) == bits

\* mutant of FlagsRegister_into: only the bits FlagPosition names are returned
FlagsRegister_into_named(flags) == And8(flags, 207)

\* Into<u8> for &FlagsRegister: the wrapped byte
FlagsRegister_into(flags) == flags

----------------------------------------------------------------------------
(* memory_bus.rs: MemoryBus *)

Get(arr, i) == IF i \in DOMAIN arr THEN arr[i] ELSE 0

Put(arr, i, v) == [j \in (DOMAIN arr) \cup {i} |-> IF j = i THEN v ELSE arr[j]]

\* MemoryBus::new: every array starts zeroed
MemoryBus_new == [zero_page |-> <<>>, ram_io_rom |-> <<>>, irq_vector |-> [i \in 0..1 |-> 0]]

Panic(c) == [c EXCEPT !.status = "panicked"]

\* the panic of .expect() on Err(ByteExpectedArgument) / Err(AddrExpectedArgument)
ArgumentMismatch(c) == [c EXCEPT !.status = "argument_mismatch"]

Running(c) == c.status = "running"

\* a value-returning call: the machine after it and the value returned
Ret(c, v) == [c |-> c, v |-> v]

\* mutant of read_byte: the IRQ vector is served from the first two bytes of the zero page
read_byte_vector_in_zero_page(c, address) ==
    IF ~Running(c) THEN Ret(c, 0)
    ELSE Bind([c EXCEPT !.bus_log = Append(@, <<"r", address>>)], LAMBDA logged :
         IF address \in ZERO_PAGE_START..ZERO_PAGE_END
         THEN Ret(logged, Get(c.zero_page, address))
         ELSE IF address \in RAM_IO_ROM_START..RAM_IO_ROM_END
         THEN Ret(logged, Get(c.ram_io_rom, address - RAM_IO_ROM_START))
         ELSE IF address \in IRQ_START..IRQ_END
         THEN Ret(logged, Get(c.zero_page, address - IRQ_START))
         ELSE Ret(Panic(logged), 0))

\* read_byte prints the access, then returns the byte or aborts in todo!()
read_byte(c, address) ==
    IF ~Running(c) THEN Ret(c, 0)
    ELSE Bind([c EXCEPT !.bus_log = Append(@, <<"r", address>>)], LAMBDA logged :
         IF address \in ZERO_PAGE_START..ZERO_PAGE_END
         THEN Ret(logged, Get(c.zero_page, address))
         ELSE IF address \in RAM_IO_ROM_START..RAM_IO_ROM_END
         THEN Ret(logged, Get(c.ram_io_rom, address - RAM_IO_ROM_START))
         ELSE IF address \in IRQ_START..IRQ_END
         THEN Ret(logged, MemoryBus_new.irq_vector[address - IRQ_START])
         ELSE Ret(Panic(logged), 0))

\* mutant of load_rom: the bound check counts the bytes that fit, and the data lands
\* one byte further than offset
load_rom_off_by_one(c, offset, data) ==
    IF offset > RAM_IO_ROM_SIZE THEN Ret(c, "OffsetOutOfBounds")
    ELSE IF RAM_IO_ROM_START + offset + Len(data) > RAM_IO_ROM_END + 1
    THEN Ret(c, "ROMLoadOutOfBounds")
    ELSE Ret([c EXCEPT
                !.ram_io_rom =
                    [j \in (DOMAIN @) \cup ((offset + 1)..(offset + Len(data))) |->
                        IF j \in (offset + 1)..(offset + Len(data))
                        THEN data[j - offset] ELSE @[j]],
                !.zero_page = Put(@, 1, 64)],
             "Ok")

\* load_rom: Err and nothing done, or data copied to ram_io_rom[offset..] and the RTI
\* opcode planted at zero-page address 1; the value returned is the Result's variant
load_rom(c, offset, data) ==
    IF offset > RAM_IO_ROM_SIZE THEN Ret(c, "OffsetOutOfBounds")
    ELSE IF RAM_IO_ROM_START + offset + Len(data) > RAM_IO_ROM_END
    THEN Ret(c, "ROMLoadOutOfBounds")
    ELSE Ret([c EXCEPT
                !.ram_io_rom =
                    [j \in (DOMAIN @) \cup (offset..(offset + Len(data) - 1)) |->
                        IF j \in offset..(offset + Len(data) - 1)
                        THEN data[j - offset + 1] ELSE @[j]],
                !.zero_page = Put(@, 1, 64)],
             "Ok")

\* mutant of write_byte: RAM is indexed by the bus address, without subtracting its start
write_byte_flat_index(c, address, value) ==
    IF ~Running(c) THEN c
    ELSE Bind([c EXCEPT !.bus_log = Append(@, <<"w", address, value>>)], LAMBDA logged :
         IF address \in ZERO_PAGE_START..ZERO_PAGE_END
         THEN [logged EXCEPT !.zero_page = Put(@, address, value)]
         ELSE IF address \in RAM_IO_ROM_START..RAM_IO_ROM_END
         THEN [logged EXCEPT !.ram_io_rom = Put(@, address, value)]
         ELSE Panic(logged))

write_byte(c, address, value) ==
    IF ~Running(c) THEN c
    ELSE Bind([c EXCEPT !.bus_log = Append(@, <<"w", address, value>>)], LAMBDA logged :
         IF address \in ZERO_PAGE_START..ZERO_PAGE_END
         THEN [logged EXCEPT !.zero_page = Put(@, address, value)]
         ELSE IF address \in RAM_IO_ROM_START..RAM_IO_ROM_END
         THEN [logged EXCEPT !.ram_io_rom = Put(@, address - RAM_IO_ROM_START, value)]
         ELSE Panic(logged))

----------------------------------------------------------------------------
(* cpu.rs: helpers *)

dword_from_nibbles(low_byte, high_byte) == high_byte * U8 + low_byte

\* u16 `+`: panics when overflow checks are on, wraps otherwise
add_u16(c, v, n) ==
    IF ~Running(c) THEN Ret(c, 0)
    ELSE IF v + n >= U16 /\ overflow_checks THEN Ret(Panic(c), 0)
    ELSE Ret(c, (v + n) % U16)

\* mutant of advance_pc: adds 1 whatever the instruction length
advance_pc_by_one(c, n) ==
    IF Running(c) THEN [c EXCEPT !.pc = (c.pc + 1) % U16] ELSE c

\* self.pc += n
advance_pc(c, n) ==
    Bind(add_u16(c, c.pc, n), LAMBDA r :
         IF Running(r.c) THEN [r.c EXCEPT !.pc = r.v] ELSE r.c)

\* fetch: every u16 is inside 0..=MEM_SPACE_END
fetch(c, address) == read_byte(c, address)

fetch_dword(c, address) ==
    Bind(fetch(c, address), LAMBDA lo :
    Bind(add_u16(lo.c, address, 1), LAMBDA next :
    Bind(fetch(next.c, next.v), LAMBDA hi :
         Ret(hi.c, dword_from_nibbles(lo.v, hi.v)))))

----------------------------------------------------------------------------
(* cpu.rs: stack primitives *)

\* mutant of wrapping_add: the sum keeps its carry
add_without_wrap(u, v) == u + v

\* u8::wrapping_add

wrapping_add(u, v) == (u + v) % U8

wrapping_dec(b) == (b + U8 - 1) % U8
wrapping_inc(b) == (b + 1) % U8

\* mutant of push: decrements S before the write
push_predecrement(c, value) ==
    IF ~Running(c) THEN c
    ELSE Bind([c EXCEPT !.s = wrapping_dec(c.s)], LAMBDA c1 : write_byte(c1, c1.s, value))

push(c, value) ==
    Bind(write_byte(c, c.s, value), LAMBDA c1 :
         IF Running(c1) THEN [c1 EXCEPT !.s = wrapping_dec(c1.s)] ELSE c1)

push_dword(c, value) ==
    Bind(write_byte(c, c.s, Shr(And16(value, 65280), 8)), LAMBDA c1 :
    Bind(IF Running(c1) THEN [c1 EXCEPT !.s = wrapping_dec(c1.s)] ELSE c1, LAMBDA c2 :
    Bind(write_byte(c2, c2.s, And16(value, 255)), LAMBDA c3 :
         IF Running(c3) THEN [c3 EXCEPT !.s = wrapping_dec(c3.s)] ELSE c3)))

pop(c) ==
    IF ~Running(c) THEN Ret(c, 0)
    ELSE Bind([c EXCEPT !.s = wrapping_inc(c.s)], LAMBDA c1 : read_byte(c1, c1.s))

pop_dword(c) ==
    IF ~Running(c) THEN Ret(c, 0)
    ELSE Bind(read_byte([c EXCEPT !.s = wrapping_inc(c.s)], wrapping_inc(c.s)), LAMBDA lo :
         IF ~Running(lo.c) THEN Ret(lo.c, 0)
         ELSE Bind(read_byte([lo.c EXCEPT !.s = wrapping_inc(lo.c.s)], wrapping_inc(lo.c.s)),
                   LAMBDA hi : Ret(hi.c, dword_from_nibbles(lo.v, hi.v))))

----------------------------------------------------------------------------
(* cpu.rs: Argument, BCD helpers, fetch_operand *)

Void == [kind |-> "Void", v |-> 0]
Byte(b) == [kind |-> "Byte", v |-> b]
Addr(w) == [kind |-> "Addr", v |-> w]

bcd_to_u8(bcd) == Shr(bcd, 4) * 10 + And8(bcd, 15)

u8_to_bcd(value) ==
    IF value < 100 THEN Or8(Shl8(value \div 10, 4), value % 10) ELSE 0

\* `as i8` of a u8 bit pattern
as_i8(b) == IF b >= 128 THEN b - U8 ELSE b

\* FetchOperandResult(operand, Option<address>) and the machine after the reads
\* Option<u16>::None: a value no u16 address equals
None == U16

Operand(c, v, addr) == [c |-> c, v |-> v, addr |-> addr]

fetch_operand(c, arg, addressing_type) ==
    LET byte_ok == arg.kind = "Byte"
        addr_ok == arg.kind = "Addr"
        arg0 == arg.v
        fail == Operand(ArgumentMismatch(c), 0, None)
        at(c1, address, reported) ==
            Bind(fetch(c1, address), LAMBDA r : Operand(r.c, r.v, reported))
    IN  IF ~Running(c) THEN Operand(c, 0, None)
        ELSE CASE addressing_type = "XIndexedZeroIndirect" ->
                    IF ~byte_ok THEN fail
                    ELSE Bind(fetch_dword(c, wrapping_add(c.x, arg0)), LAMBDA ptr :
                              at(ptr.c, ptr.v, ptr.v))
               [] addressing_type = "ZeroPage" ->
                    IF ~byte_ok THEN fail ELSE at(c, arg0, arg0)
               [] addressing_type = "Immediate" ->
                    IF ~byte_ok THEN fail ELSE Operand(c, arg0, None)
               [] addressing_type = "Absolute" ->
                    IF ~addr_ok THEN fail ELSE at(c, arg0, arg0)
               [] addressing_type = "ZeroIndirectIndexed" ->
                    IF ~byte_ok THEN fail
                    ELSE Bind(fetch(c, arg0), LAMBDA lo :
                         Bind(fetch(lo.c, arg0 + 1), LAMBDA hi :
                         Bind(add_u16(hi.c, c.y, dword_from_nibbles(lo.v, hi.v)), LAMBDA ea :
                              at(ea.c, ea.v, dword_from_nibbles(lo.v, hi.v)))))
               [] addressing_type = "XIndexedZero" ->
                    IF ~byte_ok THEN fail
                    ELSE at(c, wrapping_add(c.x, arg0), wrapping_add(c.x, arg0))
               [] addressing_type = "YIndexedZero" ->
                    IF ~byte_ok THEN fail
                    ELSE at(c, wrapping_add(c.y, arg0), wrapping_add(c.y, arg0))
               [] addressing_type = "XIndexedAbsolute" ->
                    IF ~addr_ok THEN fail
                    ELSE Bind(add_u16(c, arg0, c.x), LAMBDA ea : at(ea.c, ea.v, ea.v))
               [] addressing_type = "YIndexedAbsolute" ->
                    IF ~addr_ok THEN fail
                    ELSE Bind(add_u16(c, arg0, c.y), LAMBDA ea : at(ea.c, ea.v, ea.v))

----------------------------------------------------------------------------
(* cpu.rs: arithmetic, branch and stack handlers *)

\* the two trailing write_flag calls: Zero from the low byte, Negative from bit 7
set_zn(bits, result) ==
    write_flag(write_flag(bits, Zero, And16(result, 255) = 0),
               Negative, Shr(And16(result, 128), 7) = 1)

\* mutant of adc_binary: the incoming carry is not added
adc_binary_without_carry_in(c, operand, carry) ==
    Bind((c.a + operand) % U16, LAMBDA r :
    Bind(write_flag(c.p, Carry, And16(r, 65280) # 0), LAMBDA p1 :
    Bind(write_flag(p1, Overflow,
                    And16(And16(Xor16(c.a, r), Xor16(operand, r)), 128) # 0), LAMBDA p2 :
         [c EXCEPT !.a = r % U8, !.p = set_zn(p2, r)])))

adc_binary(c, operand, carry) ==
    Bind((c.a + operand + carry) % U16, LAMBDA r :
    Bind(write_flag(c.p, Carry, And16(r, 65280) # 0), LAMBDA p1 :
    Bind(write_flag(p1, Overflow,
                    And16(And16(Xor16(c.a, r), Xor16(operand, r)), 128) # 0), LAMBDA p2 :
         [c EXCEPT !.a = r % U8, !.p = set_zn(p2, r)])))

\* mutant of adc_decimal: a sum above 99 is reduced but Carry is cleared
adc_decimal_without_carry_out(c, operand, carry) ==
    Bind(bcd_to_u8(c.a) + bcd_to_u8(operand) + carry, LAMBDA sum :
         IF sum >= U8 /\ overflow_checks THEN Panic(c)
         ELSE Bind(IF sum % U8 > 99 THEN (sum % U8) - 100 ELSE sum % U8, LAMBDA r :
              Bind(u8_to_bcd(r), LAMBDA result :
                   [c EXCEPT !.a = result % U8,
                             !.p = set_zn(write_flag(c.p, Carry, FALSE), result)])))

adc_decimal(c, operand, carry) ==
    Bind(bcd_to_u8(c.a) + bcd_to_u8(operand) + carry, LAMBDA sum :
         IF sum >= U8 /\ overflow_checks THEN Panic(c)
         ELSE Bind(IF sum % U8 > 99 THEN (sum % U8) - 100 ELSE sum % U8, LAMBDA r :
              Bind(u8_to_bcd(r), LAMBDA result :
                   [c EXCEPT !.a = result % U8,
                             !.p = set_zn(write_flag(c.p, Carry, sum % U8 > 99), result)])))

adc(c, operand) ==
    IF ~Running(c) THEN c
    ELSE IF ~read_flag(c.p, DecimalMode)
         THEN adc_binary(c, operand, IF read_flag(c.p, Carry) THEN 1 ELSE 0)
         ELSE adc_decimal(c, operand, IF read_flag(c.p, Carry) THEN 1 ELSE 0)

\* mutant of sbc_binary: Overflow computed with the formula of adc
sbc_binary_with_adc_overflow(c, operand, borrow) ==
    Bind((c.a - operand - borrow + U16) % U16, LAMBDA r :
    Bind(write_flag(c.p, Carry, And16(r, 65280) # 0), LAMBDA p1 :
    Bind(write_flag(p1, Overflow,
                    And16(And16(Xor16(c.a, r), Xor16(operand, r)), 128) # 0), LAMBDA p2 :
         [c EXCEPT !.a = r % U8, !.p = set_zn(p2, r)])))

sbc_binary(c, operand, borrow) ==
    Bind((c.a - operand - borrow + U16) % U16, LAMBDA r :
    Bind(write_flag(c.p, Carry, And16(r, 65280) # 0), LAMBDA p1 :
    Bind(write_flag(p1, Overflow,
                    And16(And16(Xor16(c.a, r), Not16(Xor16(operand, r))), 128) # 0), LAMBDA p2 :
         [c EXCEPT !.a = r % U8, !.p = set_zn(p2, r)])))

sbc_decimal(c, operand, borrow) ==
    Bind(as_i8((bcd_to_u8(c.a) - bcd_to_u8(operand) - borrow + 2 * U8) % U8), LAMBDA r0 :
    Bind(IF r0 < 0 THEN r0 + 100 ELSE r0, LAMBDA r :
    Bind(u8_to_bcd((r + U8) % U8), LAMBDA result :
         [c EXCEPT !.a = result % U8,
                   !.p = set_zn(write_flag(c.p, Carry, r0 < 0), result)])))

sbc(c, operand) ==
    IF ~Running(c) THEN c
    ELSE IF ~read_flag(c.p, DecimalMode)
         THEN sbc_binary(c, operand, IF ~read_flag(c.p, Carry) THEN 1 ELSE 0)
         ELSE sbc_decimal(c, operand, IF ~read_flag(c.p, Carry) THEN 1 ELSE 0)

\* mutant of branch: taken whenever the flag is set, whatever value is expected
branch_when_flag_set(c, offset, flag, set) ==
    IF ~Running(c) THEN c
    ELSE IF read_flag(c.p, flag)
         THEN [c EXCEPT !.pc = (c.pc + ((offset + U16) % U16)) % U16]
         ELSE c

\* mutant of branch: the offset is added as an unsigned byte
branch_unsigned_offset(c, offset, flag, set) ==
    IF ~Running(c) THEN c
    ELSE IF read_flag(c.p, flag) = set
         THEN [c EXCEPT !.pc = (c.pc + ((offset + U8) % U8)) % U16]
         ELSE c

branch(c, offset, flag, set) ==
    IF ~Running(c) THEN c
    ELSE IF read_flag(c.p, flag) = set
         THEN [c EXCEPT !.pc = (c.pc + ((offset + U16) % U16)) % U16]
         ELSE c

\* mutant of brk: sets the break flag, bit 4 of P, before pushing P
brk_sets_break(c) ==
    IF ~Running(c) THEN c
    ELSE Bind([c EXCEPT !.p = Or8(write_flag(c.p, IrqDisable, TRUE), Shl8(1, 4))],
              LAMBDA c1 :
         Bind(push_dword(c1, c1.pc), LAMBDA c2 :
         Bind(push(c2, FlagsRegister_into(c2.p)), LAMBDA c3 :
         Bind(read_byte(c3, 65535), LAMBDA hi :
         Bind(read_byte(hi.c, 65534), LAMBDA lo :
              IF Running(lo.c)
              THEN [lo.c EXCEPT !.pc = dword_from_nibbles(lo.v, hi.v)]
              ELSE lo.c)))))

\* mutant of brk: pushes the address after the BRK and its padding byte
brk_pushes_return_address(c) ==
    IF ~Running(c) THEN c
    ELSE Bind([c EXCEPT !.p = write_flag(c.p, IrqDisable, TRUE)], LAMBDA c1 :
         Bind(push_dword(c1, (c1.pc + 2) % U16), LAMBDA c2 :
         Bind(push(c2, FlagsRegister_into(c2.p)), LAMBDA c3 :
         Bind(read_byte(c3, 65535), LAMBDA hi :
         Bind(read_byte(hi.c, 65534), LAMBDA lo :
              IF Running(lo.c)
              THEN [lo.c EXCEPT !.pc = dword_from_nibbles(lo.v, hi.v)]
              ELSE lo.c)))))

brk(c) ==
    IF ~Running(c) THEN c
    ELSE Bind([c EXCEPT !.p = write_flag(c.p, IrqDisable, TRUE)], LAMBDA c1 :
         Bind(push_dword(c1, c1.pc), LAMBDA c2 :
         Bind(push(c2, FlagsRegister_into(c2.p)), LAMBDA c3 :
         Bind(read_byte(c3, 65535), LAMBDA irq_vec_high_byte :
         Bind(read_byte(irq_vec_high_byte.c, 65534), LAMBDA irq_vec_low_byte :
              IF Running(irq_vec_low_byte.c)
              THEN [irq_vec_low_byte.c EXCEPT
                       !.pc = dword_from_nibbles(irq_vec_low_byte.v, irq_vec_high_byte.v)]
              ELSE irq_vec_low_byte.c)))))

jsr(c, address) ==
    Bind(advance_pc(c, 2), LAMBDA c1 :
    Bind(write_byte(c1, c1.s, Shr(And16(c1.pc, 65280), 8)), LAMBDA c2 :
    Bind(IF Running(c2) THEN [c2 EXCEPT !.s = wrapping_dec(c2.s)] ELSE c2, LAMBDA c3 :
    Bind(write_byte(c3, c3.s, And16(c1.pc, 255)), LAMBDA c4 :
         IF Running(c4)
         THEN [c4 EXCEPT !.s = wrapping_dec(c4.s), !.pc = address]
         ELSE c4))))

pla(c) ==
    Bind(pop(c), LAMBDA r :
         IF Running(r.c) THEN [r.c EXCEPT !.a = r.v, !.p = set_zn(r.c.p, r.v)] ELSE r.c)

\* mutant of plp: forces bit 5 and drops bit 4 of the popped byte
plp_masked(c) ==
    Bind(pop(c), LAMBDA r :
         IF Running(r.c)
         THEN [r.c EXCEPT !.p = Or8(And8(r.v, 239), 32)]
         ELSE r.c)

plp(c) ==
    Bind(pop(c), LAMBDA r :
         IF Running(r.c) THEN [r.c EXCEPT !.p = FlagsRegister_new(r.v)] ELSE r.c)

\* mutant of rti: resumes one byte after the popped address, as rts does
rti_then_increment(c) ==
    Bind(plp(c), LAMBDA c1 :
    Bind(pop_dword(c1), LAMBDA r :
         IF Running(r.c) THEN [r.c EXCEPT !.pc = (r.v + 1) % U16] ELSE r.c))

rti(c) ==
    Bind(plp(c), LAMBDA c1 :
    Bind(pop_dword(c1), LAMBDA r :
         IF Running(r.c) THEN [r.c EXCEPT !.pc = r.v] ELSE r.c))

\* mutant of rts: returns to the popped address itself
rts_no_increment(c) ==
    Bind(pop_dword(c), LAMBDA popped :
         IF Running(popped.c) THEN [popped.c EXCEPT !.pc = popped.v] ELSE popped.c)

rts(c) ==
    Bind(pop_dword(c), LAMBDA popped :
    Bind(add_u16(popped.c, popped.v, 1), LAMBDA r :
         IF Running(r.c) THEN [r.c EXCEPT !.pc = r.v] ELSE r.c))

----------------------------------------------------------------------------
(* cpu.rs: logic, shift, compare, increment, load, store, flag and transfer handlers *)

\* ShiftOperand / IncDecOperand / LdOperand values
OperandA == [kind |-> "A", v |-> 0]
OperandX == [kind |-> "X", v |-> 0]
OperandY == [kind |-> "Y", v |-> 0]
OperandValue(v) == [kind |-> "Value", v |-> v]

\* the match that closes asl, lsr, rol, ror: the result goes to A or to memory at operand_address
shift_store(c, operand, operand_address, result) ==
    IF operand.kind = "A" THEN [c EXCEPT !.a = result]
    ELSE IF operand_address = None THEN Panic(c)
    ELSE write_byte(c, operand_address, result)

and(c, operand) ==
    IF ~Running(c) THEN c
    ELSE Bind(And8(c.a, operand), LAMBDA result :
              [c EXCEPT !.p = set_zn(c.p, result), !.a = result])

asl(c, operand, operand_address) ==
    IF ~Running(c) THEN c
    ELSE Bind(IF operand.kind = "A" THEN c.a ELSE operand.v, LAMBDA operand_value :
         Bind(Shl8(operand_value, 1), LAMBDA result :
         Bind(write_flag(c.p, Carry, Shr(And8(operand_value, 128), 7) = 1), LAMBDA p1 :
              shift_store([c EXCEPT !.p = set_zn(p1, result)],
                          operand, operand_address, result))))

\* mutant of bit: Negative and Overflow are taken from A & operand
bit_tests_result(c, operand) ==
    IF ~Running(c) THEN c
    ELSE Bind(And8(c.a, operand), LAMBDA result :
         Bind(write_flag(c.p, Zero, result = 0), LAMBDA p1 :
         Bind(write_flag(p1, Overflow, Shr(And8(result, 64), 6) = 1), LAMBDA p2 :
              [c EXCEPT !.p = write_flag(p2, Negative, Shr(And8(result, 128), 7) = 1)])))

bit(c, operand) ==
    IF ~Running(c) THEN c
    ELSE Bind(write_flag(c.p, Zero, And8(c.a, operand) = 0), LAMBDA p1 :
         Bind(write_flag(p1, Overflow, Shr(And8(operand, 64), 6) = 1), LAMBDA p2 :
              [c EXCEPT !.p = write_flag(p2, Negative, Shr(And8(operand, 128), 7) = 1)]))

\* mutant of clear_flag: clears every flag
clear_flag_resets_register(c, flag) ==
    IF ~Running(c) THEN c ELSE [c EXCEPT !.p = 0]

clear_flag(c, flag) ==
    IF ~Running(c) THEN c
    ELSE IF flag \in {Carry, DecimalMode, IrqDisable, Overflow}
    THEN [c EXCEPT !.p = write_flag(c.p, flag, FALSE)]
    ELSE Panic(c)

saturating_sub(u, v) == IF u >= v THEN u - v ELSE 0

cmp(c, register, operand) ==
    IF ~Running(c) THEN c
    ELSE Bind(saturating_sub(register, operand), LAMBDA result :
              [c EXCEPT !.p = write_flag(set_zn(c.p, result), Carry, register >= operand)])

inc_dec(c, inc, operand, operand_address) ==
    IF ~Running(c) THEN c
    ELSE Bind(CASE operand.kind = "X" -> c.x
                [] operand.kind = "Y" -> c.y
                [] OTHER -> operand.v, LAMBDA operand_value :
         Bind(IF inc THEN wrapping_inc(operand_value) ELSE wrapping_dec(operand_value),
              LAMBDA result :
         Bind([c EXCEPT !.p = set_zn(c.p, result)], LAMBDA c1 :
              CASE operand.kind = "X" -> [c1 EXCEPT !.x = result]
                [] operand.kind = "Y" -> [c1 EXCEPT !.y = result]
                [] OTHER -> IF operand_address = None THEN Panic(c1)
                            ELSE write_byte(c1, operand_address, result))))

eor(c, operand) ==
    IF ~Running(c) THEN c
    ELSE Bind(Xor16(c.a, operand), LAMBDA result :
              [c EXCEPT !.p = set_zn(c.p, result), !.a = result])

\* mutant of ld: the register is loaded, Zero and Negative are left alone
ld_keeps_flags(c, register, operand) ==
    IF ~Running(c) THEN c
    ELSE CASE register.kind = "A" -> [c EXCEPT !.a = operand]
           [] register.kind = "X" -> [c EXCEPT !.x = operand]
           [] OTHER -> [c EXCEPT !.y = operand]

ld(c, register, operand) ==
    IF ~Running(c) THEN c
    ELSE Bind(CASE register.kind = "A" -> [c EXCEPT !.a = operand]
                [] register.kind = "X" -> [c EXCEPT !.x = operand]
                [] OTHER -> [c EXCEPT !.y = operand], LAMBDA c1 :
              [c1 EXCEPT !.p = set_zn(c1.p, operand)])

lsr(c, operand, operand_address) ==
    IF ~Running(c) THEN c
    ELSE Bind(IF operand.kind = "A" THEN c.a ELSE operand.v, LAMBDA operand_value :
         Bind(Shr(operand_value, 1), LAMBDA result :
         Bind(write_flag(c.p, Carry, And8(operand_value, 1) = 1), LAMBDA p1 :
         Bind(write_flag(p1, Negative, FALSE), LAMBDA p2 :
              shift_store([c EXCEPT !.p = write_flag(p2, Zero, result = 0)],
                          operand, operand_address, result)))))

ora(c, operand) ==
    IF ~Running(c) THEN c
    ELSE Bind(Or8(c.a, operand), LAMBDA result :
              [c EXCEPT !.p = set_zn(c.p, result), !.a = result])

\* mutant of rol: bit 0 of the result is left clear, the incoming Carry is lost
rol_without_carry_in(c, operand, operand_address) ==
    IF ~Running(c) THEN c
    ELSE Bind(IF operand.kind = "A" THEN c.a ELSE operand.v, LAMBDA operand_value :
         Bind(Shl8(operand_value, 1), LAMBDA result :
         Bind(write_flag(c.p, Carry, Shr(And8(operand_value, 128), 7) = 1), LAMBDA p1 :
              shift_store([c EXCEPT !.p = set_zn(p1, result)],
                          operand, operand_address, result))))

rol(c, operand, operand_address) ==
    IF ~Running(c) THEN c
    ELSE Bind(IF operand.kind = "A" THEN c.a ELSE operand.v, LAMBDA operand_value :
         Bind(Or8(Shl8(operand_value, 1), IF read_flag(c.p, Carry) THEN 1 ELSE 0),
              LAMBDA result :
         Bind(write_flag(c.p, Carry, Shr(And8(operand_value, 128), 7) = 1), LAMBDA p1 :
              shift_store([c EXCEPT !.p = set_zn(p1, result)],
                          operand, operand_address, result))))

\* mutant of ror: the incoming Carry is not rotated into bit 7
ror_drops_carry(c, operand, operand_address) ==
    IF ~Running(c) THEN c
    ELSE Bind(IF operand.kind = "A" THEN c.a ELSE operand.v, LAMBDA operand_value :
         Bind(Shr(operand_value, 1), LAMBDA result :
         Bind(write_flag(c.p, Carry, And8(operand_value, 1) = 1), LAMBDA p1 :
              shift_store([c EXCEPT !.p = set_zn(p1, result)],
                          operand, operand_address, result))))

ror(c, operand, operand_address) ==
    IF ~Running(c) THEN c
    ELSE Bind(IF operand.kind = "A" THEN c.a ELSE operand.v, LAMBDA operand_value :
         Bind(Or8(Shr(operand_value, 1), Shl8(IF read_flag(c.p, Carry) THEN 1 ELSE 0, 7)),
              LAMBDA result :
         Bind(write_flag(c.p, Carry, And8(operand_value, 1) = 1), LAMBDA p1 :
              shift_store([c EXCEPT !.p = set_zn(p1, result)],
                          operand, operand_address, result))))

sec(c) == IF ~Running(c) THEN c ELSE [c EXCEPT !.p = write_flag(c.p, Carry, TRUE)]
sed(c) == IF ~Running(c) THEN c ELSE [c EXCEPT !.p = write_flag(c.p, DecimalMode, TRUE)]
sei(c) == IF ~Running(c) THEN c ELSE [c EXCEPT !.p = write_flag(c.p, IrqDisable, TRUE)]

st(c, register, address) ==
    CASE register.kind = "A" -> write_byte(c, address, c.a)
      [] register.kind = "X" -> write_byte(c, address, c.x)
      [] OTHER -> write_byte(c, address, c.y)

tax(c) == IF ~Running(c) THEN c ELSE [c EXCEPT !.x = c.a, !.p = set_zn(c.p, c.a)]
tay(c) == IF ~Running(c) THEN c ELSE [c EXCEPT !.y = c.a, !.p = set_zn(c.p, c.a)]
tsx(c) == IF ~Running(c) THEN c ELSE [c EXCEPT !.x = c.s, !.p = set_zn(c.p, c.s)]
txa(c) == IF ~Running(c) THEN c ELSE [c EXCEPT !.a = c.x, !.p = set_zn(c.p, c.x)]
txs(c) == IF ~Running(c) THEN c ELSE [c EXCEPT !.s = c.x]
tya(c) == IF ~Running(c) THEN c ELSE [c EXCEPT !.a = c.y, !.p = set_zn(c.p, c.y)]

----------------------------------------------------------------------------
(* opcode_decoders.rs: INSTRUCTIONS_ADDRESSING, and the instruction families *)

AdcModes ==
    [AdcXIndexedZeroIndirect |-> "XIndexedZeroIndirect", AdcZeroPage |-> "ZeroPage",
     AdcImmediate |-> "Immediate", AdcAbsolute |-> "Absolute",
     AdcZeroIndirectIndexed |-> "ZeroIndirectIndexed", AdcXIndexedZero |-> "XIndexedZero",
     AdcYIndexedAbsolute |-> "YIndexedAbsolute", AdcXIndexedAbsolute |-> "XIndexedAbsolute"]

SbcModes ==
    [SbcXIndexedZeroIndirect |-> "XIndexedZeroIndirect", SbcZeroPage |-> "ZeroPage",
     SbcImmediate |-> "Immediate", SbcAbsolute |-> "Absolute",
     SbcZeroIndirectIndexed |-> "ZeroIndirectIndexed", SbcXIndexedZero |-> "XIndexedZero",
     SbcYIndexedAbsolute |-> "YIndexedAbsolute", SbcXIndexedAbsolute |-> "XIndexedAbsolute"]

\* the (flag, expected) pair each branch instruction passes to branch()
Branches ==
    [Bcc |-> <<Carry, FALSE>>, Bcs |-> <<Carry, TRUE>>,
     Beq |-> <<Zero, TRUE>>, Bne |-> <<Zero, FALSE>>,
     Bmi |-> <<Negative, TRUE>>, Bpl |-> <<Negative, FALSE>>,
     Bvc |-> <<Overflow, FALSE>>, Bvs |-> <<Overflow, TRUE>>]

\* every other arm of execute: <<handler, its operand or flag, AddressingType, bytes added to pc>>
Arms ==
    [AndXIndexedZeroIndirect |-> <<"and", "", "XIndexedZeroIndirect", 2>>,
     AndZeroPage |-> <<"and", "", "ZeroPage", 2>>,
     AndImmediate |-> <<"and", "", "Immediate", 2>>,
     AndAbsolute |-> <<"and", "", "Absolute", 3>>,
     AndZeroIndirectIndexed |-> <<"and", "", "ZeroIndirectIndexed", 2>>,
     AndXIndexedZero |-> <<"and", "", "XIndexedZero", 2>>,
     AndYIndexedAbsolute |-> <<"and", "", "YIndexedAbsolute", 3>>,
     AndXIndexedAbsolute |-> <<"and", "", "XIndexedAbsolute", 3>>,
     AslAbsolute |-> <<"asl", "Value", "Absolute", 3>>,
     AslZeroPage |-> <<"asl", "Value", "ZeroPage", 2>>,
     AslAccumulator |-> <<"asl", "A", "None", 1>>,
     AslXIndexedZero |-> <<"asl", "Value", "XIndexedZero", 2>>,
     AslXIndexedAbsolute |-> <<"asl", "Value", "XIndexedAbsolute", 3>>,
     BitZeroPage |-> <<"bit", "", "ZeroPage", 2>>, BitAbsolute |-> <<"bit", "", "Absolute", 3>>,
     Clc |-> <<"clear_flag", Carry, "None", 1>>,
     Cld |-> <<"clear_flag", DecimalMode, "None", 1>>,
     Cli |-> <<"clear_flag", IrqDisable, "None", 1>>,
     Clv |-> <<"clear_flag", Overflow, "None", 1>>,
     CmpXIndexedZeroIndirect |-> <<"cmp", "A", "XIndexedZeroIndirect", 2>>,
     CmpZeroPage |-> <<"cmp", "A", "ZeroPage", 2>>,
     CmpImmediate |-> <<"cmp", "A", "Immediate", 2>>,
     CmpAbsolute |-> <<"cmp", "A", "Absolute", 3>>,
     CmpZeroIndirectIndexed |-> <<"cmp", "A", "ZeroIndirectIndexed", 2>>,
     CmpXIndexedZero |-> <<"cmp", "A", "XIndexedZero", 2>>,
     CmpYIndexedAbsolute |-> <<"cmp", "A", "YIndexedAbsolute", 3>>,
     CmpXIndexedAbsolute |-> <<"cmp", "A", "XIndexedAbsolute", 3>>,
     CpxZeroPage |-> <<"cmp", "X", "ZeroPage", 2>>,
     CpxImmediate |-> <<"cmp", "X", "Immediate", 2>>,
     CpxAbsolute |-> <<"cmp", "X", "Absolute", 3>>,
     CpyZeroPage |-> <<"cmp", "Y", "ZeroPage", 2>>,
     CpyImmediate |-> <<"cmp", "Y", "Immediate", 2>>,
     CpyAbsolute |-> <<"cmp", "Y", "Absolute", 3>>,
     DecAbsolute |-> <<"dec", "Value", "Absolute", 3>>,
     DecZeroPage |-> <<"dec", "Value", "ZeroPage", 2>>,
     DecXIndexedZero |-> <<"dec", "Value", "XIndexedZero", 2>>,
     DecXIndexedAbsolute |-> <<"dec", "Value", "XIndexedAbsolute", 3>>,
     Dex |-> <<"dec", "X", "None", 1>>, Dey |-> <<"dec", "Y", "None", 1>>,
     EorXIndexedZeroIndirect |-> <<"eor", "", "XIndexedZeroIndirect", 2>>,
     EorZeroPage |-> <<"eor", "", "ZeroPage", 2>>,
     EorImmediate |-> <<"eor", "", "Immediate", 2>>,
     EorAbsolute |-> <<"eor", "", "Absolute", 3>>,
     EorZeroIndirectIndexed |-> <<"eor", "", "ZeroIndirectIndexed", 2>>,
     EorXIndexedZero |-> <<"eor", "", "XIndexedZero", 2>>,
     EorYIndexedAbsolute |-> <<"eor", "", "YIndexedAbsolute", 3>>,
     EorXIndexedAbsolute |-> <<"eor", "", "XIndexedAbsolute", 3>>,
     IncAbsolute |-> <<"inc", "Value", "Absolute", 3>>,
     IncZeroPage |-> <<"inc", "Value", "ZeroPage", 2>>,
     IncXIndexedZero |-> <<"inc", "Value", "XIndexedZero", 2>>,
     IncXIndexedAbsolute |-> <<"inc", "Value", "XIndexedAbsolute", 3>>,
     Inx |-> <<"inc", "X", "None", 1>>, Iny |-> <<"inc", "Y", "None", 1>>,
     Nop |-> <<"nop", "", "None", 1>>,
     LdaXIndexedZeroIndirect |-> <<"ld", "A", "XIndexedZeroIndirect", 2>>,
     LdaZeroPage |-> <<"ld", "A", "ZeroPage", 2>>,
     LdaImmediate |-> <<"ld", "A", "Immediate", 2>>,
     LdaAbsolute |-> <<"ld", "A", "Absolute", 3>>,
     LdaZeroIndirectIndexed |-> <<"ld", "A", "ZeroIndirectIndexed", 2>>,
     LdaXIndexedZero |-> <<"ld", "A", "XIndexedZero", 2>>,
     LdaYIndexedAbsolute |-> <<"ld", "A", "YIndexedAbsolute", 3>>,
     LdaXIndexedAbsolute |-> <<"ld", "A", "XIndexedAbsolute", 3>>,
     LdxZeroPage |-> <<"ld", "X", "ZeroPage", 2>>,
     LdxImmediate |-> <<"ld", "X", "Immediate", 2>>,
     LdxAbsolute |-> <<"ld", "X", "Absolute", 3>>,
     LdxYIndexedAbsolute |-> <<"ld", "X", "YIndexedAbsolute", 3>>,
     LdxYIndexedZero |-> <<"ld", "X", "YIndexedZero", 2>>,
     LdyZeroPage |-> <<"ld", "Y", "ZeroPage", 2>>,
     LdyImmediate |-> <<"ld", "Y", "Immediate", 2>>,
     LdyAbsolute |-> <<"ld", "Y", "Absolute", 3>>,
     LdyXIndexedAbsolute |-> <<"ld", "Y", "XIndexedAbsolute", 3>>,
     LdyXIndexedZero |-> <<"ld", "Y", "XIndexedZero", 2>>,
     LsrAbsolute |-> <<"lsr", "Value", "Absolute", 3>>,
     LsrZeroPage |-> <<"lsr", "Value", "ZeroPage", 2>>,
     LsrAccumulator |-> <<"lsr", "A", "None", 1>>,
     LsrXIndexedAbsolute |-> <<"lsr", "Value", "XIndexedAbsolute", 3>>,
     LsrXIndexedZero |-> <<"lsr", "Value", "XIndexedZero", 2>>,
     OraXIndexedZeroIndirect |-> <<"ora", "", "XIndexedZeroIndirect", 2>>,
     OraZeroPage |-> <<"ora", "", "ZeroPage", 2>>,
     OraImmediate |-> <<"ora", "", "Immediate", 2>>,
     OraAbsolute |-> <<"ora", "", "Absolute", 3>>,
     OraZeroIndirectIndexed |-> <<"ora", "", "ZeroIndirectIndexed", 2>>,
     OraXIndexedZero |-> <<"ora", "", "XIndexedZero", 2>>,
     OraYIndexedAbsolute |-> <<"ora", "", "YIndexedAbsolute", 3>>,
     OraXIndexedAbsolute |-> <<"ora", "", "XIndexedAbsolute", 3>>,
     RolAbsolute |-> <<"rol", "Value", "Absolute", 3>>,
     RolZeroPage |-> <<"rol", "Value", "ZeroPage", 2>>,
     RolAccumulator |-> <<"rol", "A", "None", 1>>,
     RolXIndexedZero |-> <<"rol", "Value", "XIndexedZero", 2>>,
     RolXIndexedAbsolute |-> <<"rol", "Value", "XIndexedAbsolute", 3>>,
     RorAbsolute |-> <<"ror", "Value", "Absolute", 3>>,
     RorZeroPage |-> <<"ror", "Value", "ZeroPage", 2>>,
     RorAccumulator |-> <<"ror", "A", "None", 1>>,
     RorXIndexedZero |-> <<"ror", "Value", "XIndexedZero", 2>>,
     RorXIndexedAbsolute |-> <<"ror", "Value", "XIndexedAbsolute", 3>>,
     Sec |-> <<"sec", "", "None", 1>>, Sed |-> <<"sed", "", "None", 1>>,
     Sei |-> <<"sei", "", "None", 1>>,
     StaXIndexedZeroIndirect |-> <<"st", "A", "XIndexedZeroIndirect", 2>>,
     StaZeroPage |-> <<"st", "A", "ZeroPage", 2>>, StaAbsolute |-> <<"st", "A", "Absolute", 3>>,
     StaZeroIndirectIndexed |-> <<"st", "A", "ZeroIndirectIndexed", 2>>,
     StaXIndexedZero |-> <<"st", "A", "XIndexedZero", 2>>,
     StaYIndexedAbsolute |-> <<"st", "A", "YIndexedAbsolute", 3>>,
     StaXIndexedAbsolute |-> <<"st", "A", "XIndexedAbsolute", 3>>,
     StxZeroPage |-> <<"st", "X", "ZeroPage", 2>>, StxAbsolute |-> <<"st", "X", "Absolute", 3>>,
     StxYIndexedZero |-> <<"st", "X", "YIndexedZero", 2>>,
     StyZeroPage |-> <<"st", "Y", "ZeroPage", 2>>, StyAbsolute |-> <<"st", "Y", "Absolute", 3>>,
     StyXIndexedZero |-> <<"st", "Y", "XIndexedZero", 2>>, Tax |-> <<"tax", "", "None", 1>>,
     Tay |-> <<"tay", "", "None", 1>>, Tsx |-> <<"tsx", "", "None", 1>>,
     Txa |-> <<"txa", "", "None", 1>>, Txs |-> <<"txs", "", "None", 1>>,
     Tya |-> <<"tya", "", "None", 1>>]

\* the HashMap of opcode_decoders.rs
ArgumentTypes ==
    [AdcXIndexedZeroIndirect |-> "Byte", AdcZeroPage |-> "Byte", AdcImmediate |-> "Byte",
     AdcZeroIndirectIndexed |-> "Byte", AdcXIndexedZero |-> "Byte",
     AdcYIndexedAbsolute |-> "Addr", AdcXIndexedAbsolute |-> "Addr", AdcAbsolute |-> "Addr",
     AndXIndexedZeroIndirect |-> "Byte", AndZeroPage |-> "Byte", AndImmediate |-> "Byte",
     AndAbsolute |-> "Addr", AndZeroIndirectIndexed |-> "Byte", AndXIndexedZero |-> "Byte",
     AndXIndexedAbsolute |-> "Addr", AndYIndexedAbsolute |-> "Addr", AslAbsolute |-> "Addr",
     AslZeroPage |-> "Byte", AslAccumulator |-> "Void", AslXIndexedZero |-> "Byte",
     AslXIndexedAbsolute |-> "Addr", Bcc |-> "Byte", Bcs |-> "Byte", Beq |-> "Byte",
     Bne |-> "Byte", Bmi |-> "Byte", Bpl |-> "Byte", Bvc |-> "Byte", Bvs |-> "Byte",
     BitZeroPage |-> "Byte", BitAbsolute |-> "Addr", Brk |-> "Void", Clc |-> "Void",
     Cld |-> "Void", Cli |-> "Void", Clv |-> "Void", CmpXIndexedZeroIndirect |-> "Byte",
     CmpZeroPage |-> "Byte", CmpImmediate |-> "Byte", CmpZeroIndirectIndexed |-> "Byte",
     CmpXIndexedZero |-> "Byte", CmpYIndexedAbsolute |-> "Addr", CmpXIndexedAbsolute |-> "Addr",
     CmpAbsolute |-> "Addr", CpxZeroPage |-> "Byte", CpxImmediate |-> "Byte",
     CpxAbsolute |-> "Addr", CpyZeroPage |-> "Byte", CpyImmediate |-> "Byte",
     CpyAbsolute |-> "Addr", DecAbsolute |-> "Addr", DecZeroPage |-> "Byte",
     DecXIndexedZero |-> "Byte", DecXIndexedAbsolute |-> "Addr", Dex |-> "Void", Dey |-> "Void",
     EorXIndexedZeroIndirect |-> "Byte", EorZeroPage |-> "Byte", EorImmediate |-> "Byte",
     EorAbsolute |-> "Addr", EorZeroIndirectIndexed |-> "Byte", EorXIndexedZero |-> "Byte",
     EorXIndexedAbsolute |-> "Addr", EorYIndexedAbsolute |-> "Addr", IncAbsolute |-> "Addr",
     IncZeroPage |-> "Byte", IncXIndexedZero |-> "Byte", IncXIndexedAbsolute |-> "Addr",
     Inx |-> "Void", Iny |-> "Void", Jmp |-> "Addr", JmpIndirect |-> "Addr", Jsr |-> "Addr",
     Nop |-> "Void", LdaXIndexedZeroIndirect |-> "Byte", LdaZeroPage |-> "Byte",
     LdaImmediate |-> "Byte", LdaAbsolute |-> "Addr", LdaZeroIndirectIndexed |-> "Byte",
     LdaXIndexedZero |-> "Byte", LdaXIndexedAbsolute |-> "Addr", LdaYIndexedAbsolute |-> "Addr",
     LdxZeroPage |-> "Byte", LdxImmediate |-> "Byte", LdxAbsolute |-> "Addr",
     LdxYIndexedAbsolute |-> "Addr", LdxYIndexedZero |-> "Byte", LdyZeroPage |-> "Byte",
     LdyImmediate |-> "Byte", LdyAbsolute |-> "Addr", LdyXIndexedAbsolute |-> "Addr",
     LdyXIndexedZero |-> "Byte", LsrAbsolute |-> "Addr", LsrZeroPage |-> "Byte",
     LsrAccumulator |-> "Void", LsrXIndexedZero |-> "Byte", LsrXIndexedAbsolute |-> "Addr",
     OraXIndexedZeroIndirect |-> "Byte", OraZeroPage |-> "Byte", OraImmediate |-> "Byte",
     OraAbsolute |-> "Addr", OraZeroIndirectIndexed |-> "Byte", OraXIndexedZero |-> "Byte",
     OraXIndexedAbsolute |-> "Addr", OraYIndexedAbsolute |-> "Addr", Pha |-> "Void",
     Php |-> "Void", Pla |-> "Void", Plp |-> "Void", RolAbsolute |-> "Addr",
     RolZeroPage |-> "Byte", RolAccumulator |-> "Void", RolXIndexedZero |-> "Byte",
     RolXIndexedAbsolute |-> "Addr", RorAbsolute |-> "Addr", RorZeroPage |-> "Byte",
     RorAccumulator |-> "Void", RorXIndexedZero |-> "Byte", RorXIndexedAbsolute |-> "Addr",
     Rti |-> "Void", Rts |-> "Void", SbcXIndexedZeroIndirect |-> "Byte", SbcZeroPage |-> "Byte",
     SbcImmediate |-> "Byte", SbcAbsolute |-> "Addr", SbcZeroIndirectIndexed |-> "Byte",
     SbcXIndexedZero |-> "Byte", SbcXIndexedAbsolute |-> "Addr", SbcYIndexedAbsolute |-> "Addr",
     Sec |-> "Void", Sed |-> "Void", Sei |-> "Void", StaXIndexedZeroIndirect |-> "Byte",
     StaZeroPage |-> "Byte", StaAbsolute |-> "Addr", StaZeroIndirectIndexed |-> "Byte",
     StaXIndexedZero |-> "Byte", StaXIndexedAbsolute |-> "Addr", StaYIndexedAbsolute |-> "Addr",
     StxZeroPage |-> "Byte", StxAbsolute |-> "Addr", StxYIndexedZero |-> "Byte",
     StyZeroPage |-> "Byte", StyAbsolute |-> "Addr", StyXIndexedZero |-> "Byte", Tax |-> "Void",
     Tay |-> "Void", Tsx |-> "Void", Txa |-> "Void", Txs |-> "Void", Tya |-> "Void"]

\* mutant of INSTRUCTIONS_ADDRESSING: every instruction is catalogued without operand
INSTRUCTIONS_ADDRESSING_all_void(int) == "Void"

INSTRUCTIONS_ADDRESSING(int) ==
    IF int \in DOMAIN ArgumentTypes THEN ArgumentTypes[int] ELSE "Unimplemented"

----------------------------------------------------------------------------
(* cpu.rs: execute *)

execute(c, instr) ==
    LET int == instr.int
        arith(f(_, _), mode, len) ==
            Bind(fetch_operand(c, instr.arg, mode), LAMBDA o :
            Bind(f(o.c, o.v), LAMBDA c1 : advance_pc(c1, len)))
        then_pc(c1, len) == Bind(c1, LAMBDA c2 : advance_pc(c2, len))
        len_of(mode) ==
            IF mode \in {"Absolute", "XIndexedAbsolute", "YIndexedAbsolute"} THEN 3 ELSE 2
        operand_of(kind, v) ==
            CASE kind = "A" -> OperandA
              [] kind = "X" -> OperandX
              [] kind = "Y" -> OperandY
              [] OTHER -> OperandValue(v)
        handle(c1, arm, v, address) ==
            CASE arm[1] = "and" -> and(c1, v)
              [] arm[1] = "asl" -> asl(c1, operand_of(arm[2], v), address)
              [] arm[1] = "bit" -> bit(c1, v)
              [] arm[1] = "clear_flag" -> clear_flag(c1, arm[2])
              [] arm[1] = "cmp" ->
                    cmp(c1, CASE arm[2] = "A" -> c1.a [] arm[2] = "X" -> c1.x [] OTHER -> c1.y, v)
              [] arm[1] = "dec" -> inc_dec(c1, FALSE, operand_of(arm[2], v), address)
              [] arm[1] = "eor" -> eor(c1, v)
              [] arm[1] = "inc" -> inc_dec(c1, TRUE, operand_of(arm[2], v), address)
              [] arm[1] = "ld" -> ld(c1, operand_of(arm[2], v), v)
              [] arm[1] = "lsr" -> lsr(c1, operand_of(arm[2], v), address)
              [] arm[1] = "nop" -> c1
              [] arm[1] = "ora" -> ora(c1, v)
              [] arm[1] = "rol" -> rol(c1, operand_of(arm[2], v), address)
              [] arm[1] = "ror" -> ror(c1, operand_of(arm[2], v), address)
              [] arm[1] = "sec" -> sec(c1)
              [] arm[1] = "sed" -> sed(c1)
              [] arm[1] = "sei" -> sei(c1)
              [] arm[1] = "st" ->
                    IF address = None THEN Panic(c1) ELSE st(c1, operand_of(arm[2], v), address)
              [] arm[1] = "tax" -> tax(c1)
              [] arm[1] = "tay" -> tay(c1)
              [] arm[1] = "tsx" -> tsx(c1)
              [] arm[1] = "txa" -> txa(c1)
              [] arm[1] = "txs" -> txs(c1)
              [] arm[1] = "tya" -> tya(c1)
        run(arm) ==
            IF arm[3] = "None" THEN then_pc(handle(c, arm, 0, None), arm[4])
            ELSE Bind(fetch_operand(c, instr.arg, arm[3]), LAMBDA o :
                 Bind(handle(o.c, arm, o.v, o.addr), LAMBDA c1 : advance_pc(c1, arm[4])))
    IN  CASE int \in DOMAIN AdcModes -> arith(adc, AdcModes[int], len_of(AdcModes[int]))
          [] int \in DOMAIN SbcModes -> arith(sbc, SbcModes[int], len_of(SbcModes[int]))
          [] int \in DOMAIN Branches ->
                Bind(fetch_operand(c, instr.arg, "Immediate"), LAMBDA o :
                Bind(advance_pc(o.c, 2), LAMBDA c1 :
                     branch(c1, as_i8(o.v), Branches[int][1], Branches[int][2])))
          [] int = "Brk" -> brk(c)
          [] int = "Jmp" ->
                IF instr.arg.kind = "Addr" THEN [c EXCEPT !.pc = instr.arg.v]
                ELSE ArgumentMismatch(c)
          [] int = "JmpIndirect" ->
                IF instr.arg.kind # "Addr" THEN ArgumentMismatch(c)
                ELSE Bind(fetch_dword(c, instr.arg.v), LAMBDA r :
                          IF Running(r.c) THEN [r.c EXCEPT !.pc = r.v] ELSE r.c)
          [] int = "Jsr" ->
                IF instr.arg.kind = "Addr" THEN jsr(c, instr.arg.v) ELSE ArgumentMismatch(c)
          [] int \in DOMAIN Arms -> run(Arms[int])
          [] int = "Pha" -> then_pc(push(c, c.a), 1)
          [] int = "Php" -> then_pc(push(c, FlagsRegister_into(c.p)), 1)
          [] int = "Pla" -> then_pc(pla(c), 1)
          [] int = "Plp" -> then_pc(plp(c), 1)
          [] int = "Rti" -> rti(c)
          [] int = "Rts" -> rts(c)
          [] OTHER -> Panic(c)

----------------------------------------------------------------------------
(* The machine: Cpu and its bus as one record, and one executed instruction *)

----------------------------------------------------------------------------
(* instruction.rs and cpu.rs: decode and step *)

\* the match of impl TryFrom<u8> for Instruction
TryFromTable ==
    97 :> "AdcXIndexedZeroIndirect" @@ 101 :> "AdcZeroPage" @@ 105 :> "AdcImmediate"
    @@ 109 :> "AdcAbsolute" @@ 113 :> "AdcZeroIndirectIndexed" @@ 117 :> "AdcXIndexedZero"
    @@ 121 :> "AdcYIndexedAbsolute" @@ 125 :> "AdcXIndexedAbsolute"
    @@ 33 :> "AndXIndexedZeroIndirect" @@ 37 :> "AndZeroPage" @@ 41 :> "AndImmediate"
    @@ 45 :> "AndAbsolute" @@ 49 :> "AndZeroIndirectIndexed" @@ 53 :> "AndXIndexedZero"
    @@ 57 :> "AndYIndexedAbsolute" @@ 61 :> "AndXIndexedAbsolute" @@ 14 :> "AslAbsolute"
    @@ 6 :> "AslZeroPage" @@ 10 :> "AslAccumulator" @@ 22 :> "AslXIndexedZero"
    @@ 30 :> "AslXIndexedAbsolute" @@ 36 :> "BitZeroPage" @@ 44 :> "BitAbsolute"
    @@ 24 :> "Clc" @@ 216 :> "Cld" @@ 88 :> "Cli" @@ 184 :> "Clv"
    @@ 193 :> "CmpXIndexedZeroIndirect" @@ 197 :> "CmpZeroPage" @@ 201 :> "CmpImmediate"
    @@ 205 :> "CmpAbsolute" @@ 209 :> "CmpZeroIndirectIndexed" @@ 213 :> "CmpXIndexedZero"
    @@ 217 :> "CmpYIndexedAbsolute" @@ 221 :> "CmpXIndexedAbsolute" @@ 228 :> "CpxZeroPage"
    @@ 224 :> "CpxImmediate" @@ 236 :> "CpxAbsolute" @@ 196 :> "CpyZeroPage"
    @@ 192 :> "CpyImmediate" @@ 204 :> "CpyAbsolute" @@ 206 :> "DecAbsolute"
    @@ 198 :> "DecZeroPage" @@ 214 :> "DecXIndexedZero" @@ 222 :> "DecXIndexedAbsolute"
    @@ 202 :> "Dex" @@ 136 :> "Dey" @@ 238 :> "IncAbsolute" @@ 230 :> "IncZeroPage"
    @@ 246 :> "IncXIndexedZero" @@ 254 :> "IncXIndexedAbsolute" @@ 232 :> "Inx"
    @@ 200 :> "Iny" @@ 76 :> "Jmp" @@ 234 :> "Nop"
\* Instruction::try_from: the variant, or Err(DecodeError::UnknownOpcode)
Instruction_try_from(value) ==
    IF value \in DOMAIN TryFromTable THEN TryFromTable[value] ELSE "UnknownOpcode"

DecodedInstruction(c, int, arg) == [c |-> c, int |-> int, arg |-> arg]

\* mutant of decode: never fails, every byte is a NOP
decode_unknown_as_nop(c, value) == DecodedInstruction(c, "Nop", Void)

decode(c, value) ==
    IF ~Running(c) THEN DecodedInstruction(c, "UnknownOpcode", Void)
    ELSE Bind(Instruction_try_from(value), LAMBDA opcode :
         IF opcode = "UnknownOpcode" THEN DecodedInstruction(Panic(c), opcode, Void)
         ELSE Bind(INSTRUCTIONS_ADDRESSING(opcode), LAMBDA argument_kind :
              CASE argument_kind = "Addr" ->
                    Bind(add_u16(c, c.pc, 1), LAMBDA at1 :
                    Bind(fetch(at1.c, at1.v), LAMBDA low_byte :
                    Bind(add_u16(low_byte.c, c.pc, 2), LAMBDA at2 :
                    Bind(fetch(at2.c, at2.v), LAMBDA high_byte :
                         DecodedInstruction(high_byte.c, opcode,
                                            Addr(dword_from_nibbles(low_byte.v,
                                                                    high_byte.v)))))))
                [] argument_kind = "Byte" ->
                    Bind(add_u16(c, c.pc, 1), LAMBDA at1 :
                    Bind(fetch(at1.c, at1.v), LAMBDA byte :
                         DecodedInstruction(byte.c, opcode, Byte(byte.v))))
                [] argument_kind = "Void" -> DecodedInstruction(c, opcode, Void)
                [] OTHER -> DecodedInstruction(Panic(c), opcode, Void)))

\* step: fetch the opcode at pc, decode it, execute it
step(c) ==
    Bind(fetch(c, c.pc), LAMBDA opcode :
    Bind(decode(opcode.c, opcode.v), LAMBDA d :
         DecodedInstruction(IF Running(d.c)
                            THEN execute(d.c, [int |-> d.int, arg |-> d.arg]) ELSE d.c,
                            d.int, d.arg)))

Cur ==
    [a |-> a, x |-> x, y |-> y, pc |-> pc, s |-> s, p |-> p,
     zero_page |-> zero_page, ram_io_rom |-> ram_io_rom,
     status |-> status, bus_log |-> <<>>]

\* what the Debug impl of Cpu prints: the registers, here with the instruction about to run
Snapshot(instr) ==
    [int |-> instr.int, arg |-> instr.arg,
     a |-> a, x |-> x, y |-> y, pc |-> pc, s |-> s, p |-> p]

\* the sampled operands the decoder can hand over for an argument class
ByteArgs == {0, 1, 3, 80, 121, 128, 129, 153, 240, 255}
ZeroPageArgs == {16, 254}
AddrArgs == {768, 16384}
BranchOffsets == {0, 2, 127, 128, 240, 250}

Arguments(kind) ==
    CASE kind = "Void" -> {Void}
      [] kind = "Byte" -> {Byte(b) : b \in ByteArgs}
      [] kind = "Addr" -> {Addr(w) : w \in AddrArgs}

\* the operands sampled for an addressing mode: immediates widely, addresses at prepared cells
OperandArgs(mode) ==
    IF mode = "Immediate" THEN {Byte(b) : b \in ByteArgs}
    ELSE IF mode \in {"Absolute", "XIndexedAbsolute", "YIndexedAbsolute"}
    THEN {Addr(w) : w \in AddrArgs}
    ELSE {Byte(b) : b \in ZeroPageArgs}

\* the machine becomes n after instr was handed to execute
Becomes(n, instr) ==
    /\ a' = n.a /\ x' = n.x /\ y' = n.y /\ pc' = n.pc /\ s' = n.s /\ p' = n.p
    /\ zero_page' = n.zero_page
    /\ ram_io_rom' = n.ram_io_rom
    /\ status' = n.status
    /\ bus_log' = n.bus_log
    /\ hist' = IF hist = <<>> THEN <<Snapshot(instr)>> ELSE <<Snapshot(instr), hist[1]>>
    /\ mem_before' = [zero_page |-> zero_page, ram_io_rom |-> ram_io_rom]
    /\ steps' = steps + 1
    /\ UNCHANGED <<overflow_checks, limit>>

Execute(int, args) ==
    /\ status = "running"
    /\ \E arg \in args :
        \E instr \in {[int |-> int, arg |-> arg]} :
        \E c \in {Cur} :
        \E n \in {execute(c, instr)} : Becomes(n, instr)

ExecAdc ==
    \E int \in DOMAIN AdcModes : steps < limit /\ Execute(int, OperandArgs(AdcModes[int]))
ExecSbc ==
    \E int \in DOMAIN SbcModes : steps < limit /\ Execute(int, OperandArgs(SbcModes[int]))
ExecBranch ==
    \E int \in DOMAIN Branches :
        steps < limit /\ Execute(int, {Byte(o) : o \in BranchOffsets})
ExecBrk == steps < limit /\ Execute("Brk", Arguments(INSTRUCTIONS_ADDRESSING("Brk")))
ExecJsr == steps < limit /\ Execute("Jsr", Arguments(INSTRUCTIONS_ADDRESSING("Jsr")))
ExecPha == steps < limit /\ Execute("Pha", Arguments(INSTRUCTIONS_ADDRESSING("Pha")))
ExecPhp == steps < limit /\ Execute("Php", Arguments(INSTRUCTIONS_ADDRESSING("Php")))
ExecPla == steps < limit /\ Execute("Pla", Arguments(INSTRUCTIONS_ADDRESSING("Pla")))
ExecPlp == steps < limit /\ Execute("Plp", Arguments(INSTRUCTIONS_ADDRESSING("Plp")))
ExecRti == steps < limit /\ Execute("Rti", Arguments(INSTRUCTIONS_ADDRESSING("Rti")))
ExecRts == steps < limit /\ Execute("Rts", Arguments(INSTRUCTIONS_ADDRESSING("Rts")))

\* the instructions whose execute arm calls one of the given handlers
Family(handlers) == {int \in DOMAIN Arms : Arms[int][1] \in handlers}

\* the operands sampled for these instructions: a few immediates, one prepared cell per mode
ImmediateArgs == {0, 2, 3, 128, 255}

ArmArgs(int) ==
    IF Arms[int][1] = "bit"
    THEN IF Arms[int][3] = "ZeroPage" THEN {Byte(3), Byte(15), Byte(16)}
         ELSE {Addr(768), Addr(16384)}
    ELSE
    CASE Arms[int][3] = "None" -> {Void}
      [] Arms[int][3] = "Immediate" -> {Byte(b) : b \in ImmediateArgs}
      [] Arms[int][3] \in {"Absolute", "XIndexedAbsolute", "YIndexedAbsolute"} -> {Addr(768)}
      [] OTHER -> {Byte(16)}

ExecCompare ==
    \E int \in Family({"cmp"}) : steps < limit /\ Execute(int, ArmArgs(int))
ExecLoad ==
    \E int \in Family({"ld"}) : steps < limit /\ Execute(int, ArmArgs(int))
ExecStore ==
    \E int \in Family({"st"}) : steps < limit /\ Execute(int, ArmArgs(int))
ExecLogic ==
    \E int \in Family({"and", "ora", "eor", "bit"}) :
        steps < limit /\ Execute(int, ArmArgs(int))
ExecIncDec ==
    \E int \in Family({"inc", "dec"}) : steps < limit /\ Execute(int, ArmArgs(int))
ExecShift ==
    \E int \in Family({"asl", "lsr", "rol", "ror"}) :
        steps < limit /\ Execute(int, ArmArgs(int))
ExecTransfer ==
    \E int \in Family({"tax", "tay", "tsx", "txa", "txs", "tya"}) :
        steps < limit /\ Execute(int, ArmArgs(int))
ExecFlag ==
    \E int \in Family({"clear_flag", "sec", "sed", "sei"}) :
        steps < limit /\ Execute(int, ArmArgs(int))
ExecNop ==
    \E int \in Family({"nop"}) : steps < limit /\ Execute(int, ArmArgs(int))
ExecJmp ==
    \E int \in {"Jmp", "JmpIndirect"} :
        steps < limit /\ Execute(int, Arguments(INSTRUCTIONS_ADDRESSING(int)))

\* the instructions whose execute arm resolves its operand in one of the given modes
ModeInstructions(modes) ==
    {int \in DOMAIN Arms : Arms[int][3] \in modes}
    \cup {int \in DOMAIN AdcModes : AdcModes[int] \in modes}
    \cup {int \in DOMAIN SbcModes : SbcModes[int] \in modes}

\* operand bytes and addresses at the edges of the zero page and of the address space
IndexedByteArgs == {15, 16, 254, 255}
IndexedAddrArgs == {768, 65534, 65535}

ExecZeroIndirectIndexed ==
    \E int \in ModeInstructions({"ZeroIndirectIndexed"}) :
        steps < limit /\ Execute(int, {Byte(n) : n \in IndexedByteArgs})
ExecXIndexedZeroIndirect ==
    \E int \in ModeInstructions({"XIndexedZeroIndirect"}) :
        steps < limit /\ Execute(int, {Byte(n) : n \in IndexedByteArgs})
ExecIndexedZero ==
    \E int \in ModeInstructions({"XIndexedZero", "YIndexedZero"}) :
        steps < limit /\ Execute(int, {Byte(n) : n \in IndexedByteArgs})
ExecIndexedAbsolute ==
    \E int \in ModeInstructions({"XIndexedAbsolute", "YIndexedAbsolute"}) :
        steps < limit /\ Execute(int, {Addr(w) : w \in IndexedAddrArgs})

\* main's loop body: one cpu.step()
Step ==
    /\ steps < limit
    /\ status = "running"
    /\ \E c \in {Cur} :
       \E n \in {step(c)} : Becomes(n.c, [int |-> n.int, arg |-> n.arg])

----------------------------------------------------------------------------
(* Initial states: Cpu::new over MemoryBus::new, then the pub fields set as the tests do *)

InitWith(As, Xs, Ys, Ss, PCs, Ps, ZeroPages, Rams) ==
    /\ a \in As /\ x \in Xs /\ y \in Ys /\ s \in Ss /\ pc \in PCs /\ p \in Ps
    /\ zero_page \in ZeroPages
    /\ ram_io_rom \in Rams
    /\ status = "running"
    /\ overflow_checks \in BOOLEAN
    /\ bus_log = <<>>
    /\ hist = <<>>
    /\ mem_before = [zero_page |-> zero_page, ram_io_rom |-> ram_io_rom]
    /\ steps = 0

InitStack ==
    /\ InitWith({0, 128}, {85}, {170}, {0, 1, 255}, {4096, 65533, 65534}, {0, 52, 251},
             {MemoryBus_new.zero_page}, {MemoryBus_new.ram_io_rom})
    /\ limit = MaxSteps

NextStack ==
    \/ ExecBrk \/ ExecJsr \/ ExecPha \/ ExecPhp
    \/ ExecPla \/ ExecPlp \/ ExecRti \/ ExecRts

SpecStack == InitStack /\ [][NextStack]_vars

InitBranch ==
    /\ InitWith({1}, {0}, {0}, {0}, {8, 4096, 65533, 65535}, {0, 65, 130, 195},
             {MemoryBus_new.zero_page}, {MemoryBus_new.ram_io_rom})
    /\ limit = MaxBranchSteps

NextBranch == ExecBranch

SpecBranch == InitBranch /\ [][NextBranch]_vars

\* memory as a test would prepare it: operands and pointers at the sampled addresses
ArithZeroPage == (3 :> 129) @@ (16 :> 53) @@ (17 :> 3) @@ (18 :> 0) @@ (254 :> 153) @@ (255 :> 1)
ArithRam == (256 :> 18) @@ (257 :> 153) @@ (258 :> 128) @@ (311 :> 37) @@ (15872 :> 121)

InitArith ==
    /\ InitWith({0, 5, 80, 121, 128, 153}, {1}, {2}, {255}, {4096}, {0, 1, 8, 9, 73, 195},
             {ArithZeroPage}, {ArithRam})
    /\ limit = MaxArithSteps

NextArith ==
    \/ ExecAdc
    \/ ExecSbc

SpecArith == InitArith /\ [][NextArith]_vars

InitCompare ==
    /\ InitWith({0, 1, 128, 255}, {3, 200}, {2, 129}, {255}, {4096}, {0, 195},
             {ArithZeroPage}, {ArithRam})
    /\ limit = MaxCompareSteps

NextCompare == ExecCompare

SpecCompare == InitCompare /\ [][NextCompare]_vars
\* the arithmetic memory with a cell about to wrap under INC n,X
ExecZeroPage == (15 :> 255) @@ ArithZeroPage

InitExec ==
    /\ \/ /\ InitWith({0}, {255}, {0}, {128}, {4096}, {255}, {ExecZeroPage}, {ArithRam})
          /\ overflow_checks
       \/ /\ InitWith({129}, {255}, {0}, {128}, {4096}, {0}, {ExecZeroPage}, {ArithRam})
          /\ ~overflow_checks
    /\ limit = MaxExecSteps

NextExec ==
    \/ ExecAdc \/ ExecSbc \/ ExecBranch
    \/ ExecBrk \/ ExecJsr \/ ExecPha \/ ExecPhp
    \/ ExecPla \/ ExecPlp \/ ExecRti \/ ExecRts
    \/ ExecCompare \/ ExecLoad \/ ExecStore \/ ExecLogic \/ ExecIncDec
    \/ ExecShift \/ ExecTransfer \/ ExecFlag \/ ExecNop \/ ExecJmp

SpecExec == InitExec /\ [][NextExec]_vars
\* pointers at 0x0F, 0x10, 0xFE and 0xFF/0x00, and data where they and the indexed operands point
IndexedZeroPage ==
    (0 :> 4) @@ (1 :> 66) @@ (15 :> 48) @@ (16 :> 53) @@ (17 :> 3) @@ (18 :> 200)
    @@ (254 :> 32) @@ (255 :> 5)
IndexedRam == (256 :> 18) @@ (257 :> 153) @@ (258 :> 128) @@ (309 :> 77) @@ (311 :> 37)

InitIndexed ==
    /\ InitWith({7}, {1, 129}, {2}, {255}, {4096}, {0}, {IndexedZeroPage}, {IndexedRam})
    /\ limit = MaxIndexedSteps

NextIndexed ==
    \/ ExecZeroIndirectIndexed \/ ExecXIndexedZeroIndirect
    \/ ExecIndexedZero \/ ExecIndexedAbsolute

SpecIndexed == InitIndexed /\ [][NextIndexed]_vars
\* a ROM image as load_rom places it at 0x200: the opcode under test, then INX, NOP, INY,
\* which are also the operand bytes 0xE8 and 0xEA of the first instruction
Program(opcode) == (0 :> opcode) @@ (1 :> 232) @@ (2 :> 234) @@ (3 :> 200)

\* Cpu::new after load_rom
InitStep ==
    /\ InitWith({1}, {0}, {0}, {0}, {RAM_IO_ROM_START}, {0},
                {(1 :> 64)}, {Program(opcode) : opcode \in 0..(U8 - 1)})
    /\ limit = MaxProgramSteps

NextStep == Step

SpecStep == InitStep /\ [][NextStep]_vars

----------------------------------------------------------------------------
(* The memory bus and the construction of the CPU, called directly *)

\* mutant of Cpu_new: the accumulator starts cleared and PC at the reset vector's content
Cpu_new_from_reset(mem_bus) ==
    [a |-> 0, x |-> 0, y |-> 0, pc |-> 0, s |-> 0, p |-> FlagsRegister_new(0),
     zero_page |-> mem_bus.zero_page, ram_io_rom |-> mem_bus.ram_io_rom,
     status |-> "running", bus_log |-> <<>>]

\* Cpu::new: the registers of a CPU constructed over a bus
Cpu_new(mem_bus) ==
    [a |-> 1, x |-> 0, y |-> 0, pc |-> RAM_IO_ROM_START, s |-> 0, p |-> FlagsRegister_new(0),
     zero_page |-> mem_bus.zero_page, ram_io_rom |-> mem_bus.ram_io_rom,
     status |-> "running", bus_log |-> <<>>]

\* the ends of every region of the address space, and one byte each side of the vectors
BusAddresses ==
    {ZERO_PAGE_START, ZERO_PAGE_END, DATA_STACK_START, DATA_STACK_END,
     RAM_IO_ROM_START, RAM_IO_ROM_END, RAM_IO_ROM_END + 1, IRQ_START - 1,
     IRQ_START, IRQ_END}

\* the bus is n's after a call that does not touch the registers
BusBecomes(n) ==
    /\ zero_page' = n.zero_page
    /\ ram_io_rom' = n.ram_io_rom
    /\ status' = n.status
    /\ bus_log' = n.bus_log
    /\ mem_before' = [zero_page |-> zero_page, ram_io_rom |-> ram_io_rom]
    /\ steps' = steps + 1
    /\ UNCHANGED <<a, x, y, pc, s, p, hist, overflow_checks, limit>>

ReadByte ==
    /\ steps < limit /\ status = "running"
    /\ \E address \in BusAddresses :
        \E n \in {read_byte(Cur, address)} : BusBecomes(n.c)

WriteByte ==
    /\ steps < limit /\ status = "running"
    /\ \E address \in BusAddresses : \E value \in {1, U8 - 1} :
        \E n \in {write_byte(Cur, address, value)} : BusBecomes(n)

\* Cpu::new over the current bus: the bus is moved into the new CPU
New ==
    /\ steps < limit /\ status = "running"
    /\ \E n \in {Cpu_new([zero_page |-> zero_page, ram_io_rom |-> ram_io_rom])} :
        /\ a' = n.a /\ x' = n.x /\ y' = n.y /\ pc' = n.pc /\ s' = n.s /\ p' = n.p
        /\ zero_page' = n.zero_page
        /\ ram_io_rom' = n.ram_io_rom
        /\ status' = n.status
        /\ bus_log' = n.bus_log
        /\ hist' = <<>>
        /\ mem_before' = [zero_page |-> zero_page, ram_io_rom |-> ram_io_rom]
        /\ steps' = steps + 1
        /\ UNCHANGED <<overflow_checks, limit>>

\* load_rom on the current bus; the call is recorded with its arguments and its Result
LoadRom ==
    /\ steps < limit /\ status = "running"
    /\ \E offset \in {0, 2, RAM_IO_ROM_SIZE - 3, RAM_IO_ROM_SIZE - 2, RAM_IO_ROM_SIZE,
                       RAM_IO_ROM_SIZE + 1} :
       \E data \in {<<>>, <<7>>, <<169, 66>>} :
       \E r \in {load_rom(Cur, offset, data)} :
       \E instr \in {[int |-> "load_rom",
                       arg |-> [kind |-> "Rom", v |-> offset, data |-> data, result |-> r.v]]} :
            Becomes(r.c, instr)

InitBus ==
    /\ InitWith({0, 255}, {7}, {9}, {128}, {4096}, {0, 255},
                {MemoryBus_new.zero_page, ArithZeroPage}, {MemoryBus_new.ram_io_rom, ArithRam})
    /\ limit = MaxBusSteps

NextBus == ReadByte \/ WriteByte \/ New \/ LoadRom \/ ExecBrk

SpecBus == InitBus /\ [][NextBus]_vars

----------------------------------------------------------------------------
(* The flags register, called directly; p is the register *)

\* write_flag on p; the call is recorded as [kind "Flag", v the position, set the value]
WriteFlag ==
    /\ steps < limit /\ status = "running"
    /\ \E flag \in {Negative, Overflow, DecimalMode, IrqDisable, Zero, Carry} :
       \E set \in BOOLEAN :
       \E instr \in {[int |-> "write_flag", arg |-> [kind |-> "Flag", v |-> flag, set |-> set]]} :
       \E n \in {[Cur EXCEPT !.p = write_flag(p, flag, set)]} : Becomes(n, instr)

\* Into<u8> on p; the call is recorded with the byte it returned
IntoU8 ==
    /\ steps < limit /\ status = "running"
    /\ \E instr \in {[int |-> "into", arg |-> Byte(FlagsRegister_into(p))]} :
       \E n \in {Cur} : Becomes(n, instr)

InitFlags ==
    /\ InitWith({1}, {0}, {0}, {0}, {RAM_IO_ROM_START},
                {FlagsRegister_new(bits) : bits \in 0..(U8 - 1)},
                {MemoryBus_new.zero_page}, {MemoryBus_new.ram_io_rom})
    /\ overflow_checks
    /\ limit = MaxFlagSteps

NextFlags == WriteFlag \/ IntoU8

SpecFlags == InitFlags /\ [][NextFlags]_vars

----------------------------------------------------------------------------
(* Rotations of the accumulator, from every byte and either Carry *)

ExecRotate ==
    \E int \in {"RolAccumulator", "RorAccumulator"} :
        steps < limit /\ Execute(int, ArmArgs(int))

InitRotate ==
    /\ InitWith(0..(U8 - 1), {0}, {0}, {0}, {RAM_IO_ROM_START}, {0, 1, 194, 255},
                {MemoryBus_new.zero_page}, {MemoryBus_new.ram_io_rom})
    /\ limit = MaxRotateSteps

NextRotate == ExecRotate

SpecRotate == InitRotate /\ [][NextRotate]_vars




----------------------------------------------------------------------------
(* Vocabulary of the properties *)

\* the last instruction ran to completion
Completed(int) == hist # <<>> /\ hist[1].int = int /\ status = "running"

\* the last two instructions were first, then second, and both ran to completion
CompletedPair(first, second) ==
    Len(hist) = 2 /\ hist[2].int = first /\ hist[1].int = second /\ status = "running"

BitOf(v, i) == (v \div Pow2(i)) % 2
HighByte(w) == (w % U16) \div U8
LowByte(w) == w % U8

\* the byte the bus now returns for an address
Mem(address) == read_byte(Cur, address).v

\* the byte the bus returned for an address before the last instruction
MemBefore(address) ==
    read_byte([Cur EXCEPT !.status = "running", !.zero_page = mem_before.zero_page,
                          !.ram_io_rom = mem_before.ram_io_rom], address).v

LogAddrs(kind) == [i \in 1..Len(SelectSeq(bus_log, LAMBDA e : e[1] = kind)) |->
                      SelectSeq(bus_log, LAMBDA e : e[1] = kind)[i][2]]

\* the stack slot (low address byte) of the k-th push / pop starting from stack pointer s0
PushSlot(s0, k) == (s0 + 2 * U8 - (k - 1)) % U8
PopSlot(s0, k) == (s0 + k) % U8

----------------------------------------------------------------------------
(* Stack properties, checked under SpecStack *)

PushCount == [Pha |-> 1, Php |-> 1, Jsr |-> 2, Brk |-> 3]
PopCount == [Pla |-> 1, Plp |-> 1, Rts |-> 2, Rti |-> 3]

\* C1: every push writes at 0x0100 | S (S before the decrement), every pop reads at
\* 0x0100 | S (S after the increment); no stack access leaves 0x0100-0x01FF.
C1_StackPage ==
    /\ \A int \in DOMAIN PushCount :
          Completed(int) =>
              LogAddrs("w") = [k \in 1..PushCount[int] |->
                                  DATA_STACK_START + PushSlot(hist[1].s, k)]
    /\ \A int \in DOMAIN PopCount :
          Completed(int) =>
              LogAddrs("r") = [k \in 1..PopCount[int] |->
                                  DATA_STACK_START + PopSlot(hist[1].s, k)]

C1_Witness ==
    /\ Completed("Pha")
    /\ hist[1].s = 0 /\ hist[1].a = 128
    /\ bus_log = << <<"w", 0, 128>> >>
    /\ s = 255 /\ Mem(0) = 128

\* C2: JSR at p with stack pointer s and target t leaves PC = t, S = s - 2 and the
\* high byte of p + 2 in slot s above its low byte in slot s - 1; an RTS right
\* after it leaves PC = p + 3 and S = s.
C2_JsrRtsRoundTrip ==
    /\ Completed("Jsr") =>
          /\ pc = hist[1].arg.v
          /\ s = (hist[1].s + U8 - 2) % U8
          /\ Len(bus_log) = 2
          /\ bus_log[1][1] = "w" /\ bus_log[2][1] = "w"
          /\ bus_log[1][2] % U8 = PushSlot(hist[1].s, 1)
          /\ bus_log[2][2] % U8 = PushSlot(hist[1].s, 2)
          /\ bus_log[1][3] = HighByte(hist[1].pc + 2)
          /\ bus_log[2][3] = LowByte(hist[1].pc + 2)
          /\ Mem(bus_log[1][2]) = HighByte(hist[1].pc + 2)
          /\ Mem(bus_log[2][2]) = LowByte(hist[1].pc + 2)
    /\ CompletedPair("Jsr", "Rts") =>
          /\ pc = (hist[2].pc + 3) % U16
          /\ s = hist[2].s

C2_Witness ==
    /\ CompletedPair("Jsr", "Rts")
    /\ hist[2].pc = 4096 /\ hist[2].s = 255 /\ hist[2].arg.v = 16384
    /\ hist[1].pc = 16384 /\ hist[1].s = 253
    /\ pc = 4099 /\ s = 255

\* C3: a matched push/pop pair run back to back restores A, X, Y and S; P is
\* restored except for Z/N after PLA (set from A) and IrqDisable after BRK; PHP
\* then PLP restores the exact P byte.
C3_MatchedPairs ==
    /\ \A pair \in {<<"Jsr", "Rts">>, <<"Pha", "Pla">>, <<"Php", "Plp">>, <<"Brk", "Rti">>} :
          CompletedPair(pair[1], pair[2]) =>
              /\ a = hist[2].a /\ x = hist[2].x /\ y = hist[2].y /\ s = hist[2].s
    /\ CompletedPair("Jsr", "Rts") => p = hist[2].p
    /\ CompletedPair("Php", "Plp") => p = hist[2].p
    /\ CompletedPair("Pha", "Pla") =>
          /\ \A i \in (0..7) \ {Zero, Negative} : BitOf(p, i) = BitOf(hist[2].p, i)
          /\ BitOf(p, Zero) = (IF a = 0 THEN 1 ELSE 0)
          /\ BitOf(p, Negative) = (IF a >= 128 THEN 1 ELSE 0)
    /\ CompletedPair("Brk", "Rti") =>
          /\ \A i \in (0..7) \ {IrqDisable} : BitOf(p, i) = BitOf(hist[2].p, i)
          /\ BitOf(p, IrqDisable) = 1

C3_Witness ==
    /\ CompletedPair("Php", "Plp")
    /\ hist[2].p = 251 /\ hist[2].s = 0 /\ hist[1].p = 251 /\ hist[1].s = 255
    /\ p = 251 /\ s = 0 /\ a = 128

\* C4: BRK at p with stack pointer s sets IrqDisable, pushes PC high, PC low, then
\* P with IrqDisable set, leaves S = s - 3 and loads PC from 0xFFFE (low) and
\* 0xFFFF (high); A, X, Y are unchanged.
C4_Brk ==
    Completed("Brk") =>
        /\ BitOf(p, IrqDisable) = 1
        /\ \A i \in (0..7) \ {IrqDisable} : BitOf(p, i) = BitOf(hist[1].p, i)
        /\ SelectSeq(bus_log, LAMBDA e : e[1] = "w") =
              << <<"w", bus_log[1][2], HighByte(hist[1].pc)>>,
                 <<"w", bus_log[2][2], LowByte(hist[1].pc)>>,
                 <<"w", bus_log[3][2], p>> >>
        /\ \A k \in 1..3 : bus_log[k][2] % U8 = PushSlot(hist[1].s, k)
        /\ s = (hist[1].s + U8 - 3) % U8
        /\ {e[2] : e \in {bus_log[i] : i \in 4..Len(bus_log)}} = {IRQ_START, IRQ_END}
        /\ pc = Mem(IRQ_START) + U8 * Mem(IRQ_END)
        /\ a = hist[1].a /\ x = hist[1].x /\ y = hist[1].y

C4_Witness ==
    /\ Completed("Brk")
    /\ hist[1].pc = 4096 /\ hist[1].s = 1 /\ hist[1].p = 251
    /\ s = 254 /\ p = 255 /\ pc = 0
    /\ Mem(1) = 16 /\ Mem(0) = 0 /\ Mem(255) = 255

\* C5: PLP takes all eight bits of P from the popped byte and raises S by 1; RTI
\* pops P, then PC low, then PC high, takes both verbatim and raises S by 3.
C5_PlpRti ==
    /\ Completed("Plp") =>
          /\ LogAddrs("r") = <<bus_log[1][2]>>
          /\ bus_log[1][2] % U8 = PopSlot(hist[1].s, 1)
          /\ p = Mem(bus_log[1][2])
          /\ s = (hist[1].s + 1) % U8
    /\ Completed("Rti") =>
          /\ LogAddrs("r") = <<bus_log[1][2], bus_log[2][2], bus_log[3][2]>>
          /\ \A k \in 1..3 : bus_log[k][2] % U8 = PopSlot(hist[1].s, k)
          /\ p = Mem(bus_log[1][2])
          /\ pc = Mem(bus_log[2][2]) + U8 * Mem(bus_log[3][2])
          /\ s = (hist[1].s + 3) % U8

C5_Witness ==
    /\ CompletedPair("Jsr", "Rti")
    /\ hist[2].pc = 4096 /\ hist[2].s = 255
    /\ p = 2 /\ pc = 16 /\ s = 0

----------------------------------------------------------------------------
(* Branch properties, checked under SpecBranch *)

\* the offset byte read as a signed number
SignExtend(o) == IF o >= 128 THEN o - U8 ELSE o

\* the flag bit and the value it must have for each branch to be taken
BranchCondition ==
    [Bcc |-> <<0, 0>>, Bcs |-> <<0, 1>>, Beq |-> <<1, 1>>, Bne |-> <<1, 0>>,
     Bmi |-> <<7, 1>>, Bpl |-> <<7, 0>>, Bvc |-> <<6, 0>>, Bvs |-> <<6, 1>>]

\* C6: a branch at p with operand byte o leaves PC = (p + 2 + sign_extend(o)) mod 2^16
\* when the tested flag has the expected value and PC = p + 2 otherwise; no other
\* register and no flag changes.
C6_Branch ==
    \A int \in DOMAIN BranchCondition :
        Completed(int) =>
            /\ pc = (IF BitOf(hist[1].p, BranchCondition[int][1]) = BranchCondition[int][2]
                     THEN (hist[1].pc + 2 + SignExtend(hist[1].arg.v) + U16) % U16
                     ELSE (hist[1].pc + 2) % U16)
            /\ a = hist[1].a /\ x = hist[1].x /\ y = hist[1].y /\ s = hist[1].s
            /\ p = hist[1].p

C6_Witness ==
    /\ Completed("Bne")
    /\ hist[1].pc = 4096 /\ hist[1].arg.v = 240 /\ BitOf(hist[1].p, Zero) = 0
    /\ pc = 4082

----------------------------------------------------------------------------
(* Arithmetic properties, checked under SpecArith *)

\* the last instruction was one of the given ADC / SBC forms and ran to completion
ArithDone(modes) == hist # <<>> /\ hist[1].int \in DOMAIN modes /\ status = "running"

\* the operand byte M the instruction worked on: the immediate, or the last byte read
OperandRead == IF bus_log = <<>> THEN hist[1].arg.v ELSE Mem(bus_log[Len(bus_log)][2])

CarryIn == BitOf(hist[1].p, Carry)
WasDecimal == BitOf(hist[1].p, DecimalMode) = 1

IsBcd(v) == v % 16 <= 9 /\ v \div 16 <= 9
BcdValue(v) == (v \div 16) * 10 + (v % 16)
BcdEncode(n) == (n \div 10) * 16 + (n % 10)
Bool01(b) == IF b THEN 1 ELSE 0

\* C7: binary ADC leaves A' = (A + M + C) mod 256, Carry' = (A + M + C > 0xFF),
\* Overflow' = (((A xor r) and (M xor r) and 0x80) # 0) for r = A + M + C,
\* Zero' = (A' = 0) and Negative' = bit 7 of A'.
C7_AdcBinary ==
    (ArithDone(AdcModes) /\ ~WasDecimal) =>
        LET r == hist[1].a + OperandRead + CarryIn
        IN  /\ a = r % U8
            /\ BitOf(p, Carry) = Bool01(r > 255)
            /\ BitOf(p, Overflow) = Bool01(/\ BitOf(hist[1].a, 7) # BitOf(r, 7)
                                           /\ BitOf(OperandRead, 7) # BitOf(r, 7))
            /\ BitOf(p, Zero) = Bool01(a = 0)
            /\ BitOf(p, Negative) = BitOf(a, 7)

C7_Witness ==
    /\ ArithDone(AdcModes) /\ hist[1].int = "AdcImmediate"
    /\ hist[1].a = 80 /\ hist[1].arg.v = 80 /\ hist[1].p = 0
    /\ a = 160 /\ p = 192

\* C8: decimal ADC on valid BCD bytes A and M, with sum = bcd(A) + bcd(M) + C, leaves
\* Carry' = (sum > 99), A' = the BCD encoding of sum mod 100, Zero' and Negative'
\* derived from A', and Overflow unchanged.
C8_AdcDecimal ==
    (ArithDone(AdcModes) /\ WasDecimal /\ IsBcd(hist[1].a) /\ IsBcd(OperandRead)) =>
        LET sum == BcdValue(hist[1].a) + BcdValue(OperandRead) + CarryIn
        IN  /\ BitOf(p, Carry) = Bool01(sum > 99)
            /\ a = BcdEncode(sum % 100)
            /\ BitOf(p, Zero) = Bool01(a = 0)
            /\ BitOf(p, Negative) = BitOf(a, 7)
            /\ BitOf(p, Overflow) = BitOf(hist[1].p, Overflow)

C8_Witness ==
    /\ ArithDone(AdcModes) /\ hist[1].int = "AdcImmediate"
    /\ hist[1].a = 121 /\ hist[1].arg.v = 129 /\ hist[1].p = 8
    /\ a = 96 /\ p = 9

\* C9: after binary SBC Carry is set exactly when no borrow occurred:
\* Carry' = (A >= M + borrow) with borrow = 1 - C.
C9_SbcCarryIsNoBorrow ==
    (ArithDone(SbcModes) /\ ~WasDecimal) =>
        BitOf(p, Carry) = Bool01(hist[1].a >= OperandRead + (1 - CarryIn))

C9_Witness ==
    /\ ArithDone(SbcModes) /\ hist[1].int = "SbcImmediate"
    /\ hist[1].a = 5 /\ hist[1].arg.v = 3 /\ hist[1].p = 1
    /\ a = 2 /\ BitOf(p, Carry) = 0

\* C10: binary SBC leaves A' = (A - M - (1 - C)) mod 256,
\* Overflow' = (((A xor r) and not (M xor r) and 0x80) # 0), Zero' = (A' = 0) and
\* Negative' = bit 7 of A'; decimal SBC on valid BCD bytes leaves A' = the BCD
\* encoding of (bcd(A) - bcd(M) - (1 - C)) mod 100.
C10_SbcResult ==
    /\ (ArithDone(SbcModes) /\ ~WasDecimal) =>
          LET r == (hist[1].a - OperandRead - (1 - CarryIn)) % U16
          IN  /\ a = (hist[1].a - OperandRead - (1 - CarryIn)) % U8
              /\ BitOf(p, Overflow) = Bool01(/\ BitOf(hist[1].a, 7) # BitOf(r, 7)
                                             /\ BitOf(OperandRead, 7) = BitOf(r, 7))
              /\ BitOf(p, Zero) = Bool01(a = 0)
              /\ BitOf(p, Negative) = BitOf(a, 7)
    /\ (ArithDone(SbcModes) /\ WasDecimal /\ IsBcd(hist[1].a) /\ IsBcd(OperandRead)) =>
          a = BcdEncode((BcdValue(hist[1].a) - BcdValue(OperandRead) - (1 - CarryIn)) % 100)

C10_Witness ==
    /\ ArithDone(SbcModes) /\ hist[1].int = "SbcImmediate"
    /\ hist[1].a = 128 /\ hist[1].arg.v = 1 /\ hist[1].p = 1
    /\ a = 127 /\ BitOf(p, Overflow) = 1 /\ BitOf(p, Negative) = 0

----------------------------------------------------------------------------
(* Compare properties, checked under SpecCompare *)

CompareDone == hist # <<>> /\ hist[1].int \in Family({"cmp"}) /\ status = "running"

\* the register a compare instruction names, as it was before the instruction
ComparedRegister ==
    CASE Arms[hist[1].int][2] = "A" -> hist[1].a
      [] Arms[hist[1].int][2] = "X" -> hist[1].x
      [] OTHER -> hist[1].y

\* C11: CMP, CPX and CPY leave Carry' = (R >= M), Zero' = (R = M) and
\* Negative' = bit 7 of ((R - M) mod 256), and change no register other than PC.
C11_Compare ==
    CompareDone =>
        LET R == ComparedRegister
            M == OperandRead
        IN  /\ BitOf(p, Carry) = Bool01(R >= M)
            /\ BitOf(p, Zero) = Bool01(R = M)
            /\ BitOf(p, Negative) = BitOf((R + U8 - M) % U8, 7)
            /\ a = hist[1].a /\ x = hist[1].x /\ y = hist[1].y /\ s = hist[1].s

C11_Witness == CompareDone /\ ComparedRegister < OperandRead

----------------------------------------------------------------------------
(* Flag properties, checked under SpecExec *)

Binary == DOMAIN AdcModes \cup DOMAIN SbcModes

\* the instructions that define Zero and Negative from a result byte
ZnInstructions ==
    Binary \cup {"Pla"}
    \cup Family({"ld", "and", "ora", "eor", "inc", "dec", "asl", "rol", "ror",
                 "tax", "tay", "txa", "tya", "tsx"})

ZnDone ==
    /\ hist # <<>> /\ status = "running"
    /\ hist[1].int \in ZnInstructions
    /\ hist[1].int \in Binary => ~WasDecimal

\* where the instruction leaves its result: a register, or "Value" for memory at EA
Destination(int) ==
    CASE int \in Binary \cup {"Pla"} \cup Family({"and", "ora", "eor", "txa", "tya"}) -> "A"
      [] int \in Family({"tax", "tsx"}) -> "X"
      [] int \in Family({"tay"}) -> "Y"
      [] OTHER -> Arms[int][2]

LastAccess == bus_log[Len(bus_log)]

ResultByte ==
    CASE Destination(hist[1].int) = "A" -> a
      [] Destination(hist[1].int) = "X" -> x
      [] Destination(hist[1].int) = "Y" -> y
      [] OTHER -> Mem(LastAccess[2])

\* the byte INC/DEC started from: the register, or the memory cell it wrote back to
IncDecBefore ==
    CASE Destination(hist[1].int) = "X" -> hist[1].x
      [] Destination(hist[1].int) = "Y" -> hist[1].y
      [] OTHER -> MemBefore(LastAccess[2])

\* C12: after LDA/LDX/LDY, AND/ORA/EOR, INC/DEC/INX/DEX/INY/DEY, ASL/ROL/ROR,
\* TAX/TAY/TXA/TYA/TSX, PLA and binary ADC/SBC, Zero is set iff the result byte (the
\* destination register, or the byte written to memory) is 0 and Negative is its bit 7;
\* INC and DEC results are the old byte plus or minus one modulo 256.
C12_ZeroNegative ==
    ZnDone =>
        /\ Destination(hist[1].int) = "Value" => (bus_log # <<>> /\ LastAccess[1] = "w")
        /\ BitOf(p, Zero) = Bool01(ResultByte = 0)
        /\ BitOf(p, Negative) = BitOf(ResultByte, 7)
        /\ hist[1].int \in Family({"inc"}) => ResultByte = (IncDecBefore + 1) % U8
        /\ hist[1].int \in Family({"dec"}) => ResultByte = (IncDecBefore + U8 - 1) % U8

\* an INC of memory that wrapped from 0xFF to 0x00 and set Zero
C12_Witness ==
    /\ ZnDone /\ hist[1].int \in Family({"inc"}) /\ Destination(hist[1].int) = "Value"
    /\ IncDecBefore = 255 /\ ResultByte = 0 /\ BitOf(p, Zero) = 1 /\ BitOf(hist[1].p, Zero) = 0

\* the flags an instruction is defined to affect; the empty set for the ones C13 says leave P
AffectedFlags(int) ==
    CASE int \in Family({"ld", "and", "ora", "eor", "inc", "dec",
                         "tax", "tay", "txa", "tya", "tsx"}) -> {Zero, Negative}
      [] int \in Family({"cmp"}) -> {Carry, Zero, Negative}
      [] int \in Family({"clear_flag"}) -> {Arms[int][2]}
      [] int \in Family({"sec"}) -> {Carry}
      [] int \in Family({"sed"}) -> {DecimalMode}
      [] int \in Family({"sei"}) -> {IrqDisable}
      [] OTHER -> {}

FrameInstructions ==
    Family({"ld", "and", "ora", "eor", "inc", "dec", "tax", "tay", "txa", "tya", "tsx",
            "cmp", "clear_flag", "sec", "sed", "sei", "st", "txs", "nop"})
    \cup {"Jmp", "JmpIndirect", "Jsr", "Rts", "Pha", "Php"} \cup DOMAIN Branches

FrameDone == hist # <<>> /\ status = "running" /\ hist[1].int \in FrameInstructions

\* C13: stores, TXS, JMP, JMP-indirect, JSR, RTS, NOP, PHA, PHP and branches leave P
\* unchanged; loads, logic operations, INC/DEC and transfers change only Zero and Negative;
\* CLC/CLD/CLI/CLV and SEC/SED/SEI change only their own bit; compares change only
\* Carry, Zero and Negative.
C13_FlagFrame ==
    FrameDone =>
        LET affected == AffectedFlags(hist[1].int)
        IN  \A i \in 0..7 : i \notin affected => BitOf(p, i) = BitOf(hist[1].p, i)

\* CLC with every flag set cleared Carry and nothing else
C13_Witness ==
    /\ FrameDone /\ hist[1].int \in Family({"clear_flag"}) /\ Arms[hist[1].int][2] = Carry
    /\ hist[1].p = 255 /\ p = 254

----------------------------------------------------------------------------
(* Addressing properties, checked under SpecIndexed *)

\* the last instruction, completed or not, resolves its operand in one of the modes
Attempted(modes) == hist # <<>> /\ hist[1].int \in ModeInstructions(modes)

ModeDone(modes) == Attempted(modes) /\ status = "running"

\* the base address B the pointer at zero-page n held before the instruction
PointerBase == dword_from_nibbles(MemBefore(hist[1].arg.v), MemBefore(hist[1].arg.v + 1))

\* C14: LDA (n),Y loads the byte at B + Y and STA (n),Y stores A at B + Y, where B is
\* read little-endian from zero-page addresses n and n + 1.
C14_ZeroIndirectIndexed ==
    /\ Completed("LdaZeroIndirectIndexed") =>
            a = MemBefore((PointerBase + hist[1].y) % U16)
    /\ Completed("StaZeroIndirectIndexed") =>
            /\ LastAccess = <<"w", (PointerBase + hist[1].y) % U16, hist[1].a>>
            /\ Mem((PointerBase + hist[1].y) % U16) = hist[1].a

C14_Witness == Completed("StaZeroIndirectIndexed") /\ hist[1].y # 0

\* the zero-page pointer address p = (n + X) mod 256 of the last instruction
IndexedPointer == (hist[1].arg.v + hist[1].x) % U8

\* C15: in (n,X) mode the two pointer bytes are fetched from the zero page, the low byte
\* at p = (n + X) mod 256 and the high byte at the next zero-page byte, the operand is
\* read at the address they form, and LDA (n,X) loads that byte.
C15_XIndexedZeroIndirect ==
    Attempted({"XIndexedZeroIndirect"}) =>
        LET EA == dword_from_nibbles(MemBefore(IndexedPointer),
                                     MemBefore((IndexedPointer + 1) % U8))
        IN  /\ Len(bus_log) >= 3
            /\ bus_log[1] = <<"r", IndexedPointer>>
            /\ bus_log[2] = <<"r", (IndexedPointer + 1) % U8>>
            /\ bus_log[3] = <<"r", EA>>
            /\ Completed("LdaXIndexedZeroIndirect") => a = MemBefore(EA)

C15_Witness == Attempted({"XIndexedZeroIndirect"}) /\ IndexedPointer = 255

ModeOf(int) ==
    CASE int \in DOMAIN AdcModes -> AdcModes[int]
      [] int \in DOMAIN SbcModes -> SbcModes[int]
      [] OTHER -> Arms[int][3]

\* the index register the last instruction's mode adds, as it was before the instruction
IndexBefore ==
    IF ModeOf(hist[1].int) \in {"XIndexedAbsolute", "XIndexedZero", "XIndexedZeroIndirect"}
    THEN hist[1].x ELSE hist[1].y

\* an address the bus both reads and writes
ReadWrite(address) ==
    \/ address \in ZERO_PAGE_START..ZERO_PAGE_END
    \/ address \in RAM_IO_ROM_START..RAM_IO_ROM_END

\* C16: in nn,X and nn,Y modes the operand is accessed at (nn + index) mod 2^16, also
\* when nn + index exceeds 0xFFFF, and the step completes.
C16_IndexedAbsolute ==
    Attempted({"XIndexedAbsolute", "YIndexedAbsolute"}) =>
        LET EA == (hist[1].arg.v + IndexBefore) % U16
        IN  /\ bus_log # <<>>
            /\ bus_log[1] = <<"r", EA>>
            /\ \A i \in 1..Len(bus_log) : bus_log[i][2] = EA
            /\ ReadWrite(EA) => status = "running"

C16_Witness ==
    /\ Attempted({"XIndexedAbsolute", "YIndexedAbsolute"})
    /\ hist[1].arg.v + IndexBefore > MEM_SPACE_END

WriteBack == Family({"st", "inc", "dec", "asl", "lsr", "rol", "ror"})

\* C17: in n,X and n,Y modes the operand is read at (n + index) mod 256, an address of the
\* zero page, the step does not carry into page 1, and a write-back (STY n,X; STX n,Y;
\* INC/DEC/ASL/LSR/ROL/ROR n,X) goes to the same address.
C17_IndexedZero ==
    Attempted({"XIndexedZero", "YIndexedZero"}) =>
        LET EA == (hist[1].arg.v + IndexBefore) % U8
        IN  /\ EA \in ZERO_PAGE_START..ZERO_PAGE_END
            /\ status = "running"
            /\ bus_log # <<>>
            /\ bus_log[1] = <<"r", EA>>
            /\ \A i \in 1..Len(bus_log) : bus_log[i][2] = EA
            /\ hist[1].int \in WriteBack => (Len(bus_log) = 2 /\ LastAccess[1] = "w")
            /\ hist[1].int = "StyXIndexedZero" => LastAccess = <<"w", EA, hist[1].y>>
            /\ hist[1].int = "StxYIndexedZero" => LastAccess = <<"w", EA, hist[1].x>>

\* INC n,X whose n + X passed 0xFF wrote back inside the zero page
C17_Witness ==
    /\ Attempted({"XIndexedZero"}) /\ hist[1].int \in Family({"inc"})
    /\ hist[1].arg.v + hist[1].x > ZERO_PAGE_END
    /\ LastAccess[1] = "w" /\ LastAccess[2] = (hist[1].arg.v + hist[1].x) % U8

----------------------------------------------------------------------------
(* Decode properties, checked under SpecStep *)

Width(kind) == CASE kind = "Void" -> 1 [] kind = "Byte" -> 2 [] kind = "Addr" -> 3

PcOverwriting == {"Jmp", "JmpIndirect", "Jsr", "Rts", "Rti", "Brk"}

\* a branch instruction whose tested flag has the value that takes the branch
Taken(int) == int \in DOMAIN Branches /\ read_flag(p, Branches[int][1]) = Branches[int][2]

\* one operand of each width class
SampleArgument(kind) ==
    CASE kind = "Void" -> Void [] kind = "Byte" -> Byte(16) [] kind = "Addr" -> Addr(768)

\* the last step decoded an instruction that does not overwrite PC, and completed
Advanced ==
    /\ hist # <<>> /\ status = "running"
    /\ hist[1].int \notin PcOverwriting /\ ~(hist[1].int \in DOMAIN Branches)

\* C18: a step of an opcode that does not overwrite PC reads its operand bytes at PC + 1
\* (and PC + 2, low byte first) and advances PC by 1 + the operand bytes of the opcode's
\* width class (Void 1, Byte 2, Addr 3); the execute arm of every catalogued instruction
\* that does not overwrite PC advances PC by that same length.
C18_Length ==
    /\ Advanced =>
        LET kind == INSTRUCTIONS_ADDRESSING(hist[1].int)
            p0 == hist[1].pc
        IN  /\ pc = p0 + Width(kind)
            /\ bus_log[1] = <<"r", p0>>
            /\ kind = "Void" => hist[1].arg = Void
            /\ kind = "Byte" =>
                    /\ bus_log[2] = <<"r", p0 + 1>>
                    /\ hist[1].arg = Byte(MemBefore(p0 + 1))
            /\ kind = "Addr" =>
                    /\ bus_log[2] = <<"r", p0 + 1>> /\ bus_log[3] = <<"r", p0 + 2>>
                    /\ hist[1].arg = Addr(MemBefore(p0 + 1) + U8 * MemBefore(p0 + 2))
    /\ status = "running" =>
        \A int \in DOMAIN ArgumentTypes \ PcOverwriting :
            LET kind == ArgumentTypes[int]
                n == execute(Cur, [int |-> int, arg |-> SampleArgument(kind)])
            IN  (Running(n) /\ ~Taken(int)) => n.pc = pc + Width(kind)

\* ADC $EAE8 at 0x200 completed: three bytes, PC = 0x203
C18_Witness ==
    /\ Advanced /\ hist[1].int = "AdcAbsolute" /\ hist[1].pc = RAM_IO_ROM_START
    /\ hist[1].arg = Addr(60136) /\ pc = RAM_IO_ROM_START + 3

\* the canonical 6502 opcode byte of each (mnemonic, addressing mode) pair of the catalog
CanonicalOpcodes ==
    0 :> "Brk" @@ 1 :> "OraXIndexedZeroIndirect" @@ 5 :> "OraZeroPage"
    @@ 6 :> "AslZeroPage" @@ 8 :> "Php" @@ 9 :> "OraImmediate" @@ 10 :> "AslAccumulator"
    @@ 13 :> "OraAbsolute" @@ 14 :> "AslAbsolute" @@ 16 :> "Bpl"
    @@ 17 :> "OraZeroIndirectIndexed" @@ 21 :> "OraXIndexedZero" @@ 22 :> "AslXIndexedZero"
    @@ 24 :> "Clc" @@ 25 :> "OraYIndexedAbsolute" @@ 29 :> "OraXIndexedAbsolute"
    @@ 30 :> "AslXIndexedAbsolute" @@ 32 :> "Jsr" @@ 33 :> "AndXIndexedZeroIndirect"
    @@ 36 :> "BitZeroPage" @@ 37 :> "AndZeroPage" @@ 38 :> "RolZeroPage" @@ 40 :> "Plp"
    @@ 41 :> "AndImmediate" @@ 42 :> "RolAccumulator" @@ 44 :> "BitAbsolute"
    @@ 45 :> "AndAbsolute" @@ 46 :> "RolAbsolute" @@ 48 :> "Bmi"
    @@ 49 :> "AndZeroIndirectIndexed" @@ 53 :> "AndXIndexedZero" @@ 54 :> "RolXIndexedZero"
    @@ 56 :> "Sec" @@ 57 :> "AndYIndexedAbsolute" @@ 61 :> "AndXIndexedAbsolute"
    @@ 62 :> "RolXIndexedAbsolute" @@ 64 :> "Rti" @@ 65 :> "EorXIndexedZeroIndirect"
    @@ 69 :> "EorZeroPage" @@ 70 :> "LsrZeroPage" @@ 72 :> "Pha" @@ 73 :> "EorImmediate"
    @@ 74 :> "LsrAccumulator" @@ 76 :> "Jmp" @@ 77 :> "EorAbsolute" @@ 78 :> "LsrAbsolute"
    @@ 80 :> "Bvc" @@ 81 :> "EorZeroIndirectIndexed" @@ 85 :> "EorXIndexedZero"
    @@ 86 :> "LsrXIndexedZero" @@ 88 :> "Cli" @@ 89 :> "EorYIndexedAbsolute"
    @@ 93 :> "EorXIndexedAbsolute" @@ 94 :> "LsrXIndexedAbsolute" @@ 96 :> "Rts"
    @@ 97 :> "AdcXIndexedZeroIndirect" @@ 101 :> "AdcZeroPage" @@ 102 :> "RorZeroPage"
    @@ 104 :> "Pla" @@ 105 :> "AdcImmediate" @@ 106 :> "RorAccumulator"
    @@ 108 :> "JmpIndirect" @@ 109 :> "AdcAbsolute" @@ 110 :> "RorAbsolute" @@ 112 :> "Bvs"
    @@ 113 :> "AdcZeroIndirectIndexed" @@ 117 :> "AdcXIndexedZero"
    @@ 118 :> "RorXIndexedZero" @@ 120 :> "Sei" @@ 121 :> "AdcYIndexedAbsolute"
    @@ 125 :> "AdcXIndexedAbsolute" @@ 126 :> "RorXIndexedAbsolute"
    @@ 129 :> "StaXIndexedZeroIndirect" @@ 132 :> "StyZeroPage" @@ 133 :> "StaZeroPage"
    @@ 134 :> "StxZeroPage" @@ 136 :> "Dey" @@ 138 :> "Txa" @@ 140 :> "StyAbsolute"
    @@ 141 :> "StaAbsolute" @@ 142 :> "StxAbsolute" @@ 144 :> "Bcc"
    @@ 145 :> "StaZeroIndirectIndexed" @@ 148 :> "StyXIndexedZero"
    @@ 149 :> "StaXIndexedZero" @@ 150 :> "StxYIndexedZero" @@ 152 :> "Tya"
    @@ 153 :> "StaYIndexedAbsolute" @@ 154 :> "Txs" @@ 157 :> "StaXIndexedAbsolute"
    @@ 160 :> "LdyImmediate" @@ 161 :> "LdaXIndexedZeroIndirect" @@ 162 :> "LdxImmediate"
    @@ 164 :> "LdyZeroPage" @@ 165 :> "LdaZeroPage" @@ 166 :> "LdxZeroPage" @@ 168 :> "Tay"
    @@ 169 :> "LdaImmediate" @@ 170 :> "Tax" @@ 172 :> "LdyAbsolute"
    @@ 173 :> "LdaAbsolute" @@ 174 :> "LdxAbsolute" @@ 176 :> "Bcs"
    @@ 177 :> "LdaZeroIndirectIndexed" @@ 180 :> "LdyXIndexedZero"
    @@ 181 :> "LdaXIndexedZero" @@ 182 :> "LdxYIndexedZero" @@ 184 :> "Clv"
    @@ 185 :> "LdaYIndexedAbsolute" @@ 186 :> "Tsx" @@ 188 :> "LdyXIndexedAbsolute"
    @@ 189 :> "LdaXIndexedAbsolute" @@ 190 :> "LdxYIndexedAbsolute"
    @@ 192 :> "CpyImmediate" @@ 193 :> "CmpXIndexedZeroIndirect" @@ 196 :> "CpyZeroPage"
    @@ 197 :> "CmpZeroPage" @@ 198 :> "DecZeroPage" @@ 200 :> "Iny"
    @@ 201 :> "CmpImmediate" @@ 202 :> "Dex" @@ 204 :> "CpyAbsolute"
    @@ 205 :> "CmpAbsolute" @@ 206 :> "DecAbsolute" @@ 208 :> "Bne"
    @@ 209 :> "CmpZeroIndirectIndexed" @@ 213 :> "CmpXIndexedZero"
    @@ 214 :> "DecXIndexedZero" @@ 216 :> "Cld" @@ 217 :> "CmpYIndexedAbsolute"
    @@ 221 :> "CmpXIndexedAbsolute" @@ 222 :> "DecXIndexedAbsolute"
    @@ 224 :> "CpxImmediate" @@ 225 :> "SbcXIndexedZeroIndirect" @@ 228 :> "CpxZeroPage"
    @@ 229 :> "SbcZeroPage" @@ 230 :> "IncZeroPage" @@ 232 :> "Inx"
    @@ 233 :> "SbcImmediate" @@ 234 :> "Nop" @@ 236 :> "CpxAbsolute"
    @@ 237 :> "SbcAbsolute" @@ 238 :> "IncAbsolute" @@ 240 :> "Beq"
    @@ 241 :> "SbcZeroIndirectIndexed" @@ 245 :> "SbcXIndexedZero"
    @@ 246 :> "IncXIndexedZero" @@ 248 :> "Sed" @@ 249 :> "SbcYIndexedAbsolute"
    @@ 253 :> "SbcXIndexedAbsolute" @@ 254 :> "IncXIndexedAbsolute"
\* the byte the last step fetched at PC
FetchedOpcode == MemBefore(hist[1].pc)

\* C19: step() decodes every canonical opcode byte of the catalog to its instruction and
\* dispatches it instead of reporting it as unknown; 0x69 is ADC immediate, 0x4C is JMP
\* absolute, 0xEA is NOP and 0x00 is BRK.
C19_Decodes ==
    /\ CanonicalOpcodes[105] = "AdcImmediate" /\ CanonicalOpcodes[76] = "Jmp"
    /\ CanonicalOpcodes[234] = "Nop" /\ CanonicalOpcodes[0] = "Brk"
    /\ (hist # <<>> /\ FetchedOpcode \in DOMAIN CanonicalOpcodes) =>
            hist[1].int = CanonicalOpcodes[FetchedOpcode]

\* a step fetched 0x00, the canonical BRK
C19_Witness == hist # <<>> /\ FetchedOpcode = 0 /\ hist[1].pc = RAM_IO_ROM_START

\* C20: when the byte fetched at PC is not a catalog opcode the step ends fatally as an
\* unknown opcode, changes no register and no memory byte, and no later step executes.
C20_UnknownOpcode ==
    /\ (hist # <<>> /\ FetchedOpcode \notin DOMAIN CanonicalOpcodes) =>
            /\ status = "panicked"
            /\ hist[1].int = "UnknownOpcode"
            /\ a = hist[1].a /\ x = hist[1].x /\ y = hist[1].y
            /\ s = hist[1].s /\ pc = hist[1].pc /\ p = hist[1].p
            /\ zero_page = mem_before.zero_page
            /\ ram_io_rom = mem_before.ram_io_rom
    /\ Len(hist) = 2 => hist[2].int # "UnknownOpcode"

\* a step fetched 0x02, which is no opcode of the catalog, and the machine stopped
C20_Witness ==
    hist # <<>> /\ FetchedOpcode = 2 /\ status = "panicked" /\ steps < limit

----------------------------------------------------------------------------
\* C21

\* the Argument variant that fetch_operand extracts for an addressing mode
ExtractedKind(mode) ==
    IF mode = "None" THEN "Void"
    ELSE IF mode \in {"Absolute", "XIndexedAbsolute", "YIndexedAbsolute"} THEN "Addr"
    ELSE "Byte"

\* C21: no step ends in the panic of an argument-shape mismatch: the decoder builds, from
\* the width class of every catalogued instruction, the Argument variant that the
\* instruction's execute arm extracts (Byte for immediate, zero-page, indexed-zero,
\* indirect and branch operands; Addr for absolute, indexed-absolute, JMP and JSR).
C21_NoShapeMismatch ==
    /\ status # "argument_mismatch"
    /\ \A int \in DOMAIN Arms : INSTRUCTIONS_ADDRESSING(int) = ExtractedKind(Arms[int][3])
    /\ \A int \in DOMAIN Branches : INSTRUCTIONS_ADDRESSING(int) = "Byte"
    /\ \A int \in {"Jmp", "JmpIndirect", "Jsr"} : INSTRUCTIONS_ADDRESSING(int) = "Addr"
    /\ status = "running" =>
        \A int \in DOMAIN ArgumentTypes :
            LET kind == INSTRUCTIONS_ADDRESSING(int)
            IN  execute(Cur, [int |-> int, arg |-> SampleArgument(kind)]).status
                    # "argument_mismatch"

\* JMP $EAE8 at 0x200 was decoded with an Addr argument, which its arm extracted
C21_Witness ==
    /\ hist # <<>> /\ status = "running"
    /\ hist[1].int = "Jmp" /\ hist[1].arg = Addr(60136) /\ pc = 60136


----------------------------------------------------------------------------
\* C22

\* C22: the memory bus is total: every read_byte and write_byte on an address of
\* 0..0xFFFF completes, the stack page 0x0100-0x01FF and the vectors 0xFFFA-0xFFFF included.
C22_BusTotal ==
    /\ bus_log # <<>> => status = "running"
    /\ status = "running" =>
        \A address \in BusAddresses :
            /\ Running(read_byte(Cur, address).c)
            /\ read_byte(Cur, address).v \in 0..(U8 - 1)
            /\ Running(write_byte(Cur, address, U8 - 1))

\* a read of the first byte of the stack page was issued
C22_Witness == bus_log = <<<<"r", DATA_STACK_START>>>>


----------------------------------------------------------------------------
\* C23

\* C23: after any sequence of steps S, A, X, Y and P are 8-bit and PC is 16-bit, and a step
\* completes at the top of the address space: the advance of PC and the return address
\* popped by RTS plus one wrap modulo 2^16; S wraps modulo 256 on a push at S = 0 and on
\* a pop at S = 0xFF.
C23_Wraps ==
    /\ a \in 0..(U8 - 1) /\ x \in 0..(U8 - 1) /\ y \in 0..(U8 - 1)
    /\ s \in 0..(U8 - 1) /\ p \in 0..(U8 - 1) /\ pc \in 0..MEM_SPACE_END
    /\ (hist # <<>> /\ hist[1].int \in {"Pha", "Php", "Pla", "Plp"}) =>
            /\ status = "running"
            /\ pc = (hist[1].pc + 1) % U16
            /\ hist[1].int \in {"Pha", "Php"} => s = (hist[1].s + U8 - 1) % U8
            /\ hist[1].int \in {"Pla", "Plp"} => s = (hist[1].s + 1) % U8
    /\ (hist # <<>> /\ hist[1].int = "Rts") =>
            /\ status = "running"
            /\ pc = (dword_from_nibbles(MemBefore(PopSlot(hist[1].s, 1)),
                                        MemBefore(PopSlot(hist[1].s, 2))) + 1) % U16
            /\ s = (hist[1].s + 2) % U8

\* PHA was executed at PC = 0xFFFF
C23_Witness == hist # <<>> /\ hist[1].int = "Pha" /\ hist[1].pc = MEM_SPACE_END


----------------------------------------------------------------------------
\* C24

\* Cpu::new was the last call (a bus access is left in bus_log, a load_rom or BRK in hist)
NewDone == steps > 0 /\ bus_log = <<>> /\ hist = <<>>

\* C24: a newly constructed CPU has A = 1, X = 0, Y = 0, S = 0, PC = 0x0200 and P = 0
\* whatever the bus holds, and its construction accesses no byte of the bus.
C24_NewCpu ==
    NewDone =>
        /\ a = 1 /\ x = 0 /\ y = 0 /\ s = 0 /\ pc = 512 /\ p = 0
        /\ status = "running"
        /\ zero_page = mem_before.zero_page /\ ram_io_rom = mem_before.ram_io_rom

\* a CPU was constructed over a bus with a loaded RAM and a written zero page
C24_Witness ==
    /\ NewDone /\ Get(zero_page, ZERO_PAGE_END) = U8 - 1
    /\ ram_io_rom = ArithRam


----------------------------------------------------------------------------
\* C25

\* bits 4 and 5 of a status byte, the two bits FlagPosition does not name
Unwritten(bits) == And8(bits, Shl8(1, 4) + Shl8(1, 5))

\* C25: every instruction other than PLP and RTI leaves bits 4 and 5 of P as they were, and
\* PLP and RTI set them to bits 4 and 5 of the popped byte; so from P = 0 they stay 0
\* unless PLP or RTI popped a byte that has them set.
C25_UnwrittenBits ==
    hist # <<>> =>
        /\ hist[1].int \notin {"Plp", "Rti"} => Unwritten(p) = Unwritten(hist[1].p)
        /\ (hist[1].int \in {"Plp", "Rti"} /\ status = "running") =>
                Unwritten(p) = Unwritten(MemBefore(PopSlot(hist[1].s, 1)))
        /\ (Unwritten(hist[1].p) = 0 /\ Unwritten(p) # 0) =>
                /\ hist[1].int \in {"Plp", "Rti"}
                /\ Unwritten(MemBefore(PopSlot(hist[1].s, 1))) # 0

\* BRK from P = 0 set IrqDisable and nothing else
C25_Witness ==
    /\ Completed("Brk") /\ hist[1].p = 0
    /\ p = Shl8(1, IrqDisable) /\ Unwritten(p) = 0


----------------------------------------------------------------------------
\* C26

BitDone == hist # <<>> /\ hist[1].int \in Family({"bit"}) /\ status = "running"

\* C26: BIT sets Zero iff (A and M) = 0, Negative to bit 7 of M and Overflow to bit 6 of M,
\* where M is the operand byte in memory; A, X, Y, S, Carry and memory are unchanged.
C26_Bit ==
    BitDone =>
        LET M == MemBefore(hist[1].arg.v)
        IN  /\ read_flag(p, Zero) = (And8(hist[1].a, M) = 0)
            /\ read_flag(p, Negative) = (BitOf(M, 7) = 1)
            /\ read_flag(p, Overflow) = (BitOf(M, 6) = 1)
            /\ read_flag(p, Carry) = read_flag(hist[1].p, Carry)
            /\ a = hist[1].a /\ x = hist[1].x /\ y = hist[1].y /\ s = hist[1].s
            /\ zero_page = mem_before.zero_page /\ ram_io_rom = mem_before.ram_io_rom
            /\ bus_log = <<<<"r", hist[1].arg.v>>>>

\* BIT $3E00 with A = 0x81 and M = 0x79: Zero clear (A and M = 1), Overflow set, Negative clear
C26_Witness ==
    /\ BitDone /\ hist[1].int = "BitAbsolute" /\ hist[1].a = 129
    /\ MemBefore(hist[1].arg.v) = 121
    /\ ~read_flag(p, Zero) /\ read_flag(p, Overflow) /\ ~read_flag(p, Negative)


----------------------------------------------------------------------------
\* C27

ShiftDone ==
    /\ hist # <<>> /\ status = "running"
    /\ hist[1].int \in Family({"asl", "lsr", "rol", "ror"})

\* the effective address of the last instruction's memory operand
ShiftAddress ==
    CASE Arms[hist[1].int][3] = "XIndexedZero" -> (hist[1].arg.v + hist[1].x) % U8
      [] Arms[hist[1].int][3] = "XIndexedAbsolute" -> (hist[1].arg.v + hist[1].x) % U16
      [] OTHER -> hist[1].arg.v

\* the byte the last shift or rotate started from
ShiftBefore ==
    IF Arms[hist[1].int][2] = "A" THEN hist[1].a ELSE MemBefore(ShiftAddress)

\* the result the last shift or rotate is to produce
Shifted ==
    LET v == ShiftBefore
        c == BitOf(hist[1].p, Carry)
        handler == Arms[hist[1].int][1]
    IN  CASE handler = "asl" -> (v * 2) % U8
          [] handler = "lsr" -> v \div 2
          [] handler = "rol" -> ((v * 2) % U8) + c
          [] handler = "ror" -> (v \div 2) + (c * 128)

\* C27: ASL yields (v << 1) mod 256 and LSR v >> 1; ROL yields ((v << 1) mod 256) | c and
\* ROR (v >> 1) | (c << 7), c being Carry before; Carry becomes bit 7 of v for ASL and ROL,
\* bit 0 of v for LSR and ROR, and LSR clears Negative. In accumulator mode the result goes
\* to A and memory is not written; in memory modes it is written to the effective address
\* and A is unchanged.
C27_Shift ==
    ShiftDone =>
        LET handler == Arms[hist[1].int][1]
        IN  /\ handler \in {"asl", "rol"} => BitOf(p, Carry) = BitOf(ShiftBefore, 7)
            /\ handler \in {"lsr", "ror"} => BitOf(p, Carry) = BitOf(ShiftBefore, 0)
            /\ handler = "lsr" => ~read_flag(p, Negative)
            /\ IF Arms[hist[1].int][2] = "A"
               THEN /\ a = Shifted
                    /\ bus_log = <<>>
                    /\ zero_page = mem_before.zero_page
                    /\ ram_io_rom = mem_before.ram_io_rom
               ELSE /\ a = hist[1].a
                    /\ bus_log = <<<<"r", ShiftAddress>>, <<"w", ShiftAddress, Shifted>>>>
                    /\ Mem(ShiftAddress) = Shifted

\* ROR n,X on 0xFF with Carry set wrote 0xFF back and kept Carry
C27_Witness ==
    /\ ShiftDone /\ hist[1].int = "RorXIndexedZero" /\ ShiftBefore = U8 - 1
    /\ read_flag(hist[1].p, Carry) /\ Mem(ShiftAddress) = U8 - 1 /\ read_flag(p, Carry)


----------------------------------------------------------------------------
\* C28

\* the kinds ("r" / "w") of the bus accesses of the last instruction, in order
LogKinds == [i \in 1..Len(bus_log) |-> bus_log[i][1]]

\* no read was issued after a write
ReadsFirst ==
    \A i \in 1..Len(bus_log) : \A j \in 1..Len(bus_log) :
        (i < j /\ bus_log[i][1] = "w") => bus_log[j][1] = "w"

\* C28: the bus accesses of one instruction are issued in the listed order: operand and
\* pointer reads precede the instruction's memory write, and BRK issues its three stack
\* writes (PC high, PC low, P) and then reads the IRQ vector, 0xFFFE first, 0xFFFF second.
C28_BusOrder ==
    /\ (hist # <<>> /\ hist[1].int # "Brk") => ReadsFirst
    /\ Completed("Brk") =>
            /\ LogKinds = <<"w", "w", "w", "r", "r">>
            /\ bus_log[1][3] = HighByte(hist[1].pc)
            /\ bus_log[2][3] = LowByte(hist[1].pc)
            /\ bus_log[3][3] = write_flag(hist[1].p, IrqDisable, TRUE)
            /\ bus_log[4] = <<"r", IRQ_START>>
            /\ bus_log[5] = <<"r", IRQ_END>>

\* BRK ran to completion: three writes, two vector reads
C28_Witness == Completed("Brk") /\ Len(bus_log) = 5 /\ pc = 0


----------------------------------------------------------------------------
\* C29

WriteFlagDone == hist # <<>> /\ hist[1].int = "write_flag"

\* C29: write_flag(pos, v) sets the bit at pos to v and leaves the other seven bits as
\* they were, from any starting byte; read_flag(pos) is true exactly when the bit at pos
\* is set, so a read after the write returns v.
C29_WriteFlag ==
    /\ WriteFlagDone =>
            /\ BitOf(p, hist[1].arg.v) = (IF hist[1].arg.set THEN 1 ELSE 0)
            /\ \A i \in 0..7 : i # hist[1].arg.v => BitOf(p, i) = BitOf(hist[1].p, i)
            /\ read_flag(p, hist[1].arg.v) = hist[1].arg.set
    /\ \A pos \in {Negative, Overflow, DecimalMode, IrqDisable, Zero, Carry} :
            read_flag(p, pos) = (BitOf(p, pos) = 1)

\* Overflow was cleared in 0xFF: 0xBF, the other seven bits still set
C29_Witness ==
    /\ WriteFlagDone /\ hist[1].arg.v = Overflow /\ ~hist[1].arg.set
    /\ hist[1].p = U8 - 1 /\ p = U8 - 1 - Shl8(1, Overflow)

----------------------------------------------------------------------------
\* C30

IntoDone == hist # <<>> /\ hist[1].int = "into"

\* C30: for every byte b, the FlagsRegister built from b converts back to b.
C30_RoundTrip ==
    IntoDone =>
        \A b \in 0..(U8 - 1) :
            hist[1].p = FlagsRegister_new(b) => hist[1].arg = Byte(b)

\* the register built from 0b10110001 was converted back to 0b10110001
C30_Witness == IntoDone /\ hist[1].p = FlagsRegister_new(177) /\ hist[1].arg = Byte(177)


----------------------------------------------------------------------------
\* C31

\* C31: branch(offset, flag, expected) called with PC = q sets PC to
\* (q + sign-extended offset) mod 2^16 when the flag's value equals expected (PC 0x00 with
\* offset 2 gives 0x02, PC 0x16 with offset -6 gives 0x10) and leaves PC = q otherwise;
\* the flags, the other registers and memory are unchanged, and no bus access is made.
C31_Branch ==
    status = "running" =>
        /\ \E c \in {Cur} : \A offset \in {-128, -6, 2, 127} :
           \A flag \in {Negative, Overflow, Zero, Carry} : \A set \in BOOLEAN :
                LET target == IF read_flag(p, flag) = set THEN (pc + offset + U16) % U16
                              ELSE pc
                IN  branch(c, offset, flag, set) = [c EXCEPT !.pc = target]
        /\ branch([Cur EXCEPT !.pc = 0, !.p = 0], 2, Carry, FALSE).pc = 2
        /\ branch([Cur EXCEPT !.pc = 0, !.p = 1], 2, Carry, FALSE).pc = 0
        /\ branch([Cur EXCEPT !.pc = 22, !.p = 0], -6, Carry, FALSE).pc = 16

\* BNE -6 was taken backwards from the address after the branch
C31_Witness ==
    /\ Completed("Bne") /\ hist[1].arg = Byte(250) /\ ~read_flag(hist[1].p, Zero)
    /\ pc = hist[1].pc + 2 - 6


----------------------------------------------------------------------------
\* C32

----------------------------------------------------------------------------
\* C33

----------------------------------------------------------------------------
\* C34

\* the last call was a write_byte that completed
WriteDone ==
    /\ status = "running" /\ Len(bus_log) = 1 /\ bus_log[1][1] = "w"

\* an address read_byte serves
Readable(address) ==
    \/ ReadWrite(address)
    \/ address \in IRQ_START..IRQ_END

\* C34: after a write_byte(a, v) that completes (a in the zero page or in 0x0200-0xFFF9),
\* read_byte(a) returns v and read_byte of every other readable address returns what it
\* returned before the write: the regions do not alias each other.
C34_WriteRead ==
    WriteDone =>
        /\ ReadWrite(bus_log[1][2])
        /\ Mem(bus_log[1][2]) = bus_log[1][3]
        /\ \A other \in BusAddresses \cup {1, bus_log[1][2] + RAM_IO_ROM_START, MEM_SPACE_END - 8} :
                (Readable(other) /\ other # bus_log[1][2]) => Mem(other) = MemBefore(other)

\* 0xFF was written at the first byte of RAM, over the 0x01 written there before
C34_Witness ==
    /\ WriteDone /\ bus_log[1] = <<"w", RAM_IO_ROM_START, U8 - 1>>
    /\ MemBefore(RAM_IO_ROM_START) = 1 /\ Mem(RAM_IO_ROM_START) = U8 - 1


----------------------------------------------------------------------------
\* C35

\* load_rom was the last call
LoadDone == hist # <<>> /\ hist[1].int = "load_rom" /\ bus_log = <<>>

\* C35: load_rom(offset, data) returns an error and leaves every memory byte unchanged
\* when offset exceeds the size of the RAM/IO/ROM region or 0x0200 + offset + len(data)
\* exceeds 0xFFF9; otherwise it returns Ok with data copied to bus addresses
\* 0x0200 + offset .. 0x0200 + offset + len - 1, all inside the region, and changes nothing
\* else except zero-page address 0x0001, which becomes 0x40.
C35_LoadRom ==
    LoadDone =>
        LET offset == hist[1].arg.v
            data == hist[1].arg.data
            result == hist[1].arg.result
            first == RAM_IO_ROM_START + offset
            loaded == first..(first + Len(data) - 1)
        IN  /\ status = "running"
            /\ result \in {"Ok", "OffsetOutOfBounds", "ROMLoadOutOfBounds"}
            /\ (result # "Ok") <=> \/ offset > RAM_IO_ROM_SIZE
                                   \/ first + Len(data) > RAM_IO_ROM_END
            /\ result # "Ok" =>
                    /\ zero_page = mem_before.zero_page
                    /\ ram_io_rom = mem_before.ram_io_rom
            /\ result = "Ok" =>
                    /\ loaded \subseteq RAM_IO_ROM_START..RAM_IO_ROM_END
                    /\ \A i \in 1..Len(data) : Mem(first + i - 1) = data[i]
                    /\ Mem(1) = 64
                    /\ \A other \in BusAddresses \cup {2, offset, first - 1, first + Len(data)} :
                            (Readable(other) /\ other \notin loaded /\ other # 1)
                                => Mem(other) = MemBefore(other)

\* the last two bytes a load may fill, 0xFFF7 and 0xFFF8, were loaded
C35_Witness ==
    /\ LoadDone /\ hist[1].arg.result = "Ok" /\ hist[1].arg.data = <<169, 66>>
    /\ hist[1].arg.v = RAM_IO_ROM_SIZE - 3
    /\ Mem(RAM_IO_ROM_END - 2) = 169 /\ Mem(RAM_IO_ROM_END - 1) = 66


----------------------------------------------------------------------------
\* C36

\* C36: ROL A and ROR A are mutual inverses on the pair (A, Carry): from every byte v
\* in A and either Carry c, ROL A followed by ROR A, and ROR A followed by ROL A, leave
\* A = v and Carry = c.
C36_RotateInverse ==
    \A pair \in {<<"RolAccumulator", "RorAccumulator">>,
                 <<"RorAccumulator", "RolAccumulator">>} :
        CompletedPair(pair[1], pair[2]) =>
            /\ a = hist[2].a
            /\ BitOf(p, Carry) = BitOf(hist[2].p, Carry)

\* ROL A turned 0x81 with Carry set into 0x03 with Carry set, and ROR A turned that back
C36_Witness ==
    /\ CompletedPair("RolAccumulator", "RorAccumulator")
    /\ hist[2].a = 129 /\ BitOf(hist[2].p, Carry) = 1
    /\ hist[1].a = 3 /\ BitOf(hist[1].p, Carry) = 1
    /\ a = 129 /\ BitOf(p, Carry) = 1

----------------------------------------------------------------------------
\* C37

\* the last instruction was ADC #n or SBC #n in decimal mode, completed or not
DecimalAttempted ==
    /\ hist # <<>> /\ hist[1].int \in {"AdcImmediate", "SbcImmediate"}
    /\ read_flag(hist[1].p, DecimalMode)

\* C37: decimal-mode ADC and SBC complete for every byte in A and in the operand and
\* either carry, bytes whose nibbles exceed 9 included: the decimal sum or difference does
\* not overflow its 8-bit working type and A is a byte afterwards.
C37_DecimalCompletes ==
    DecimalAttempted => (status = "running" /\ a \in 0..(U8 - 1))

\* ADC #$FF in decimal mode with A = 0x99: the operand's nibbles are not decimal digits
C37_Witness ==
    /\ DecimalAttempted /\ hist[1].int = "AdcImmediate"
    /\ hist[1].a = 153 /\ hist[1].arg = Byte(255)

====
